---- MODULE Spec2Model ----
(***************************************************************************)
(* Model of the Telegram scraper: the message export pipeline              *)
(* (fetch_group_messages with the sender cache and the two enrichment      *)
(* strategies) and the bulk-add operation (add_users_to_group).            *)
(*                                                                         *)
(* Time is counted in days for message dates and in milliseconds for       *)
(* sleeps.  The remote chat platform is the environment: every remote call *)
(* draws its outcome from a small set.  The variable log records, in       *)
(* program order, every remote call, every error it raised, every sleep    *)
(* and every report printed for a failure.                                 *)
(*                                                                         *)
(* The export is modelled on TelegramTools (tools.py); the copy of the     *)
(* same loops in FastTelegramScraper takes the same branches.  The bulk    *)
(* add exists in FastTelegramScraper only.                                 *)
(*                                                                         *)
(* The post-processing of TelegramTools has a specification of its own per *)
(* operation: SpecAgg (process_csv_to_json and the keyword filter), SpecAi *)
(* (validate_user_with_ai), SpecSheets (upload_to_google_sheets), and, for *)
(* the two computations the export uses, SpecWindow (the date range) and   *)
(* SpecKw (find_message_keywords).  Text is a sequence of code points.     *)
(*                                                                         *)
(* SpecRun is run() of the two entry points, from the credentials to the   *)
(* disconnect; SpecVal is the validation loop of process_and_validate_data *)
(* with upload_existing_data_to_sheets; SpecAbort is the export with a     *)
(* write loop that can be left early; SpecAddLive is the bulk add with the *)
(* fairness of its loop.                                                   *)
(***************************************************************************)
EXTENDS Integers, Sequences, FiniteSets, TLC

\* ------------------------------------------------------------------ bounds
MaxMsgs     == 2      \* most in-window messages the source delivers
MaxSkipped  == 1      \* most messages newer than the window it delivers
MaxQuantity == 1      \* largest period count entered
MaxUsers    == 3      \* longest user list of the bulk-add input file
NowUTC      == 100    \* datetime.now(timezone.utc), in days
MaxRecords  == 3      \* most rows of the CSV file given to the aggregation
MaxCount    == 8      \* largest period count given to the date range
MaxFragments == 3     \* most pieces a text given to the matcher is made of
MaxValidated == 3     \* most users given to the upload
MaxSheetRows == 4     \* most rows the worksheet holds before the upload
MaxCandidates == 2    \* most users given to the validation loop

\* ------------------------------------------------------- program constants
api_delay_ms      == 200     \* Settings.api_delay = 0.2 s
invite_delay_ms   == 60000   \* asyncio.sleep(60) after an invite
max_common_groups == 5
max_cache_groups  == 10
get_dialogs_limit == 200

None     == "None"
NoSender == "NoSender"

\* ----------------------------------------------------------------- senders
\* Sender objects the source can attach to a message.  Each identity has the
\* class name and the bot flag the capability checks of the code look at.
Senders == {"u1", "u2", "bot", "chan", "chat"}

ClassName(u) == CASE u = "chan" -> "Channel"
                  [] u = "chat" -> "Chat"
                  [] OTHER      -> "User"

\* getattr(user, "bot", False)
Bot(u) == u = "bot"

\* Text is a sequence of code points; NoneText is the None a text attribute
\* holds when it is not set.
NoneText == <<-1>>
At == 64          \* "@"

\* sender.username, sender.first_name and sender.last_name; a Channel has no
\* first_name or last_name and a Chat has no username either, which getattr
\* and hasattr answer like an unset attribute.
Username(u) == CASE u = "u1"   -> <<97, 108>>            \* "al"
                 [] u = "bot"  -> <<64, 98, 111, 116>>   \* "@bot"
                 [] u = "chan" -> <<110, 119>>           \* "nw"
                 [] OTHER      -> NoneText
FirstName(u) == CASE u = "u1"  -> <<65, 108>>            \* "Al"
                  [] u = "bot" -> <<66>>                 \* "B"
                  [] OTHER     -> NoneText
LastName(u)  == CASE u = "u1"  -> <<83>>                 \* "S"
                  [] OTHER     -> NoneText

\* if username and not username.startswith("@"): username = f"@{username}"
AtPrefix(username) ==
    IF username # <<>> /\ username[1] # At THEN <<At>> \o username ELSE username

\* sender_info["username"] and sender_info["name"] of a message with a sender
SenderUsername(u) ==
    IF Username(u) \notin {NoneText, <<>>} THEN AtPrefix(Username(u)) ELSE <<>>

SenderName(u) ==
    LET parts == SelectSeq(<<FirstName(u), LastName(u)>>,
                           LAMBDA x : x \notin {NoneText, <<>>})
    IN IF parts = <<>> THEN <<>>
       ELSE IF Len(parts) = 1 THEN parts[1]
       ELSE parts[1] \o <<32>> \o parts[2]

\* str.replace(old, new)
RECURSIVE Replace(_, _, _)
Replace(text, old, new) ==
    IF text = <<>> THEN <<>>
    ELSE IF Len(text) >= Len(old) /\ SubSeq(text, 1, Len(old)) = old
    THEN new \o Replace(SubSeq(text, Len(old) + 1, Len(text)), old, new)
    ELSE <<text[1]>> \o Replace(Tail(text), old, new)

\* message.message or "", then .replace("\\n", " ").replace("\\r", " "): the
\* patterns are a backslash followed by the letter n, and by the letter r.
MessageText(body) ==
    LET message_text == IF body \in {NoneText, <<>>} THEN <<>> ELSE body
    IN Replace(Replace(message_text, <<92, 110>>, <<32>>), <<92, 114>>, <<32>>)

\* The texts the source attaches: none (a media message), "bet" with a line
\* feed and a carriage return in it, and "a", backslash, "n", "b".
Bodies == <<NoneText,
            <<98, 101, 116, 10, 120, 13, 121>>,
            <<97, 92, 110, 98>>>>

\* The text of a message is fixed by its number, so that the texts do not
\* multiply the runs: every text meets every sender.
Body(id) == Bodies[((id - 1) % Len(Bodies)) + 1]

target_group == [title |-> "G", id |-> 77]

\* "Channel" in class_name / "Chat" in class_name, over the class names above
HasChannelInName(cn) == cn \in {"Channel", "ChannelForbidden"}
HasChatInName(cn)    == cn \in {"Chat", "ChatForbidden", "ChatEmpty"}

Take(s, n) == SubSeq(s, 1, IF Len(s) < n THEN Len(s) ELSE n)

Ev(e, w, a) == [ev |-> e, who |-> w, arg |-> a]

\* Outcomes of client.get_dialogs(limit=200): an error, or the titles of the
\* dialogs that are groups (titles are numbered).
DialogOutcomes == {[ok |-> FALSE, titles |-> <<>>],
                   [ok |-> TRUE, titles |-> [k \in 1..12 |-> k]]}

\* self._common_groups_cache: None until the first fetch attempt, a list after
NoneCache == [is_none |-> TRUE, titles |-> <<>>]
ListCache(t) == [is_none |-> FALSE, titles |-> t]

\* Outcomes of client(GetFullUserRequest(user.id)).
FloodSeconds    == {7}
ProfileOutcomes == {[res |-> r, secs |-> 0] :
                        r \in {"about", "no_about", "error", "peer_channel_error"}}
                     \cup {[res |-> "flood", secs |-> s] : s \in FloodSeconds}

EmptyInfo == [bio |-> "", gaming_keywords |-> "", common_groups |-> <<>>]

\* A variant that leaves the cache unset when the listing raised.
get_user_fast_info_unset_on_error(user, cache, dres) ==
    IF HasChannelInName(ClassName(user)) \/ HasChatInName(ClassName(user))
    THEN [info |-> [EmptyInfo EXCEPT !.bio = "CHANNEL"], cache |-> cache, events |-> <<>>]
    ELSE IF Bot(user)
    THEN [info |-> [EmptyInfo EXCEPT !.bio = "BOT"], cache |-> cache, events |-> <<>>]
    ELSE LET fetched == cache.is_none
             c2 == IF ~fetched THEN cache
                   ELSE IF ~dres.ok THEN NoneCache
                   ELSE ListCache(Take(dres.titles, max_cache_groups))
         IN [info   |-> [EmptyInfo EXCEPT
                           !.common_groups = Take(c2.titles, max_common_groups)],
             cache  |-> c2,
             events |-> IF ~fetched THEN <<>>
                        ELSE IF ~dres.ok
                             THEN <<Ev("get_dialogs", user, get_dialogs_limit),
                                    Ev("Exception", "get_dialogs", 0)>>
                             ELSE <<Ev("get_dialogs", user, get_dialogs_limit)>>]

\* get_user_fast_info: result info, the common-groups cache afterwards and
\* the remote events it caused.
get_user_fast_info(user, cache, dres) ==
    IF HasChannelInName(ClassName(user)) \/ HasChatInName(ClassName(user))
    THEN [info |-> [EmptyInfo EXCEPT !.bio = "CHANNEL"], cache |-> cache, events |-> <<>>]
    ELSE IF Bot(user)
    THEN [info |-> [EmptyInfo EXCEPT !.bio = "BOT"], cache |-> cache, events |-> <<>>]
    ELSE LET fetched == cache.is_none
             c2 == IF ~fetched THEN cache
                   ELSE IF ~dres.ok THEN ListCache(<<>>)
                   ELSE ListCache(Take(dres.titles, max_cache_groups))
         IN [info   |-> [EmptyInfo EXCEPT
                           !.common_groups = Take(c2.titles, max_common_groups)],
             cache  |-> c2,
             events |-> IF ~fetched THEN <<>>
                        ELSE IF ~dres.ok
                             THEN <<Ev("get_dialogs", user, get_dialogs_limit),
                                    Ev("Exception", "get_dialogs", 0)>>
                             ELSE <<Ev("get_dialogs", user, get_dialogs_limit)>>]

\* A variant whose guard lets every sender but a bot through to the request.
get_user_detailed_info_bot_only(user, cache, dres, pres) ==
    LET f == get_user_fast_info(user, cache, dres)
    IN IF f.info.bio \notin {"BOT"}
       THEN [info   |-> IF pres.res = "about" THEN [f.info EXCEPT !.bio = "about"] ELSE f.info,
             cache  |-> f.cache,
             events |-> f.events \o <<Ev("GetFullUserRequest", user, 0)>>]
       ELSE f

\* A variant that answers a failed request with the all-empty info.
get_user_detailed_info_reset(user, cache, dres, pres) ==
    LET f == get_user_fast_info(user, cache, dres)
    IN IF f.info.bio \notin {"BOT", "CHANNEL"}
       THEN [info   |-> IF pres.res = "about" THEN [f.info EXCEPT !.bio = "about"]
                        ELSE IF pres.res = "no_about" THEN f.info
                        ELSE EmptyInfo,
             cache  |-> f.cache,
             events |-> f.events \o <<Ev("GetFullUserRequest", user, 0)>> \o
                        (IF pres.res \in {"about", "no_about"} THEN <<>>
                         ELSE <<Ev("Exception", "GetFullUserRequest", 0)>>)]
       ELSE f

\* get_user_detailed_info: the fast lookup, then one GetFullUserRequest for a
\* sender whose bio is neither BOT nor CHANNEL; every exception is swallowed.
get_user_detailed_info(user, cache, dres, pres) ==
    LET f == get_user_fast_info(user, cache, dres)
    IN IF f.info.bio \notin {"BOT", "CHANNEL"}
       THEN [info   |-> IF pres.res = "about" THEN [f.info EXCEPT !.bio = "about"] ELSE f.info,
             cache  |-> f.cache,
             events |-> f.events \o <<Ev("GetFullUserRequest", user, 0)>> \o
                        (CASE pres.res = "error" ->
                                <<Ev("Exception", "GetFullUserRequest", 0), Ev("print", user, 0)>>
                           [] pres.res = "peer_channel_error" ->
                                <<Ev("Exception", "GetFullUserRequest", 0)>>
                           [] pres.res = "flood" ->
                                <<Ev("FloodWaitError", "GetFullUserRequest", pres.secs),
                                  Ev("print", user, 0)>>
                           [] OTHER -> <<>>)]
       ELSE f

\* ------------------------------------------------- validate_user_with_ai
\* Python values a call can return, by type and printed form.
PyTrue  == [type |-> "bool", val |-> "True"]
PyFalse == [type |-> "bool", val |-> "False"]
PyValue(t, v) == [type |-> t, val |-> v]

\* json.loads over the documents a reply can carry: whether the text decodes,
\* the Python type of the result and, for a dict, its entry "valid".
NotJson == [decoded |-> FALSE, type |-> "", has_valid |-> FALSE, valid |-> PyFalse]
Decoded(t) == [decoded |-> TRUE, type |-> t, has_valid |-> FALSE, valid |-> PyFalse]
Dict(v) == [decoded |-> TRUE, type |-> "dict", has_valid |-> TRUE, valid |-> v]

JsonDocuments ==
    {"{\"valid\": true}", "{\"valid\": false}", "{\"valid\": \"yes\"}",
     "{\"valid\": \"\"}", "{\"valid\": 1}", "{\"valid\": null}",
     "{\"reason\": \"ok\"}", "[true]", "true", "\"valid\"", "valid: true"}

\* the three backquotes that open and close a markdown code block
Fence == "FENCE"
WhitespaceTokens == {" ", "\n"}

\* The reply text is a sequence of tokens: a fence, the word json, white
\* space, or one document.
json_loads(text) ==
    IF Len(text) # 1 THEN NotJson
    ELSE CASE text[1] = "{\"valid\": true}"    -> Dict(PyTrue)
           [] text[1] = "{\"valid\": false}"   -> Dict(PyFalse)
           [] text[1] = "{\"valid\": \"yes\"}" -> Dict(PyValue("str", "yes"))
           [] text[1] = "{\"valid\": \"\"}"    -> Dict(PyValue("str", ""))
           [] text[1] = "{\"valid\": 1}"       -> Dict(PyValue("int", "1"))
           [] text[1] = "{\"valid\": null}"    -> Dict(PyValue("NoneType", "None"))
           [] text[1] = "{\"reason\": \"ok\"}" -> [Decoded("dict") EXCEPT !.type = "dict"]
           [] text[1] = "[true]"               -> Decoded("list")
           [] text[1] = "true"                 -> Decoded("bool")
           [] text[1] = "\"valid\""            -> Decoded("str")
           [] OTHER                            -> NotJson

RECURSIVE LStripTokens(_)
LStripTokens(t) ==
    IF t # <<>> /\ Head(t) \in WhitespaceTokens THEN LStripTokens(Tail(t)) ELSE t

RECURSIVE RStripTokens(_)
RStripTokens(t) ==
    IF t # <<>> /\ t[Len(t)] \in WhitespaceTokens
    THEN RStripTokens(SubSeq(t, 1, Len(t) - 1)) ELSE t

StripTokens(t) == RStripTokens(LStripTokens(t))

\* "Remove markdown code blocks if present", then strip()
RemoveCodeBlock(ai_response) ==
    LET a == StripTokens(ai_response)
        b == IF Len(a) >= 2 /\ a[1] = Fence /\ a[2] = "json"
             THEN SubSeq(a, 3, Len(a)) ELSE a
        c == IF b # <<>> /\ b[1] = Fence THEN Tail(b) ELSE b
        d == IF c # <<>> /\ c[Len(c)] = Fence THEN SubSeq(c, 1, Len(c) - 1) ELSE c
    IN StripTokens(d)

\* What the POST can produce: an exception (transport error or timeout), a
\* status other than 200, a 200 whose body has no choices[0].message.content,
\* or a 200 with a reply text.
NoResponse == [kind |-> "none", status_code |-> 0, has_content |-> FALSE, content |-> <<>>]

ReplyTexts ==
    UNION {{<<doc>>,
            <<" ", doc, "\n">>,
            <<Fence, "json", "\n", doc, "\n", Fence>>,
            <<Fence, "\n", doc, "\n", Fence>>,
            <<Fence, "json", "\n", doc>>,
            <<"json", " ", doc>>} : doc \in JsonDocuments}

Responses ==
    {[NoResponse EXCEPT !.kind = k] : k \in {"ConnectError", "TimeoutException"}}
      \cup {[NoResponse EXCEPT !.kind = "response", !.status_code = c] : c \in {401, 429, 500}}
      \cup {[NoResponse EXCEPT !.kind = "response", !.status_code = 200]}
      \cup {[kind |-> "response", status_code |-> 200, has_content |-> TRUE, content |-> t] :
               t \in ReplyTexts}

\* The try block after the POST.  The outer "except Exception" answers False
\* to the exception of the POST, to the KeyError of a body without the reply
\* text and to the AttributeError of .get on a value that is not a dict;
\* "except json.JSONDecodeError" answers False to a text that does not decode.
HandleReply(resp) ==
    IF resp.kind # "response" THEN PyFalse
    ELSE IF resp.status_code # 200 THEN PyFalse
    ELSE IF ~resp.has_content THEN PyFalse
    ELSE LET validation_result == json_loads(RemoveCodeBlock(resp.content)) IN
         IF ~validation_result.decoded THEN PyFalse
         ELSE IF validation_result.type # "dict" THEN PyFalse
         ELSE IF validation_result.has_valid THEN validation_result.valid
         ELSE PyFalse

\* ------------------------------------------------- find_message_keywords
\* GamingKeywords.KEYWORDS, every term as its sequence of code points.
KEYWORDS ==
    <<<<105, 103, 97, 109, 105, 110, 103>>,   \* igaming
      <<99, 97, 115, 105, 110, 111>>,   \* casino
      <<98, 101, 116>>,   \* bet
      <<98, 101, 116, 116, 105, 110, 103>>,   \* betting
      <<112, 111, 107, 101, 114>>,   \* poker
      <<115, 108, 111, 116, 115>>,   \* slots
      <<103, 97, 109, 98, 108, 105, 110, 103>>,   \* gambling
      <<103, 97, 109, 101>>,   \* game
      <<103, 97, 109, 101, 115>>,   \* games
      <<106, 97, 99, 107, 112, 111, 116>>,   \* jackpot
      <<108, 111, 116, 116, 101, 114, 121>>,   \* lottery
      <<114, 111, 117, 108, 101, 116, 116, 101>>,   \* roulette
      <<112, 97, 121, 109, 101, 110, 116, 115>>,   \* payments
      <<112, 97, 121, 109, 101, 110, 116>>,   \* payment
      <<99, 114, 121, 112, 116, 111>>,   \* crypto
      <<98, 105, 116, 99, 111, 105, 110>>,   \* bitcoin
      <<116, 114, 97, 100, 105, 110, 103>>,   \* trading
      <<102, 111, 114, 101, 120>>,   \* forex
      <<97, 102, 102, 105, 108, 105, 97, 116, 101>>,   \* affiliate
      <<1087, 1072, 1088, 1090, 1085, 1077, 1088>>,   \* (cyrillic)
      <<1082, 1072, 1079, 1080, 1085, 1086>>,   \* (cyrillic)
      <<1089, 1090, 1072, 1074, 1082, 1080>>,   \* (cyrillic)
      <<1080, 1075, 1088, 1099>>,   \* (cyrillic)
      <<1072, 1079, 1072, 1088, 1090>>,   \* (cyrillic)
      <<1082, 1088, 1080, 1087, 1090, 1086, 1074, 1072, 1083, 1102, 1090, 1072>>,   \* (cyrillic)
      <<1090, 1088, 1077, 1081, 1076, 1080, 1085, 1075>>,   \* (cyrillic)
      <<1087, 1072, 1088, 1090, 1085, 1105, 1088, 1082, 1072>>,   \* (cyrillic)
      <<1088, 1077, 1092, 1077, 1088, 1072, 1083>>,   \* (cyrillic)
      <<1075, 1077, 1084, 1073, 1083, 1080, 1085, 1075>>,   \* (cyrillic)
      <<1073, 1091, 1082, 1084, 1077, 1082, 1077, 1088>>,   \* (cyrillic)
      <<98, 111, 111, 107, 109, 97, 107, 101, 114>>,   \* bookmaker
      <<1089, 1087, 1086, 1088, 1090>>,   \* (cyrillic)
      <<115, 112, 111, 114, 116>>,   \* sport
      <<1087, 1088, 1086, 1075, 1085, 1086, 1079>>,   \* (cyrillic)
      <<1087, 1088, 1086, 1075, 1085, 1086, 1079, 1099>>,   \* (cyrillic)
      <<1082, 1072, 1087, 1077, 1088>>,   \* (cyrillic)
      <<99, 97, 112, 112, 101, 114>>,   \* capper
      <<116, 105, 112, 115, 116, 101, 114>>,   \* tipster
      <<1073, 1080, 1085, 1072, 1085, 1089>>,   \* (cyrillic)
      <<98, 105, 110, 97, 110, 99, 101>>,   \* binance
      <<1089, 1080, 1075, 1085, 1072, 1083>>,   \* (cyrillic)
      <<115, 112, 105, 110>>,   \* spin
      <<115, 112, 105, 110, 122>>,   \* spinz
      <<118, 101, 103, 97, 115>>,   \* vegas
      <<114, 111, 108, 108>>,   \* roll
      <<104, 105, 103, 104, 114, 111, 108, 108>>,   \* highroll
      <<98, 101, 116, 119, 105, 110>>,   \* betwin
      <<98, 101, 116, 119, 105, 110, 110, 101, 114>>,   \* betwinner
      <<109, 101, 108, 98, 101, 116>>,   \* melbet
      <<49, 120, 98, 101, 116>>,   \* 1xbet
      <<49, 120, 99, 97, 115, 105, 110, 111>>,   \* 1xcasino
      <<99, 112, 97>>,   \* cpa
      <<114, 101, 118, 115, 104, 97, 114, 101>>,   \* revshare
      <<116, 114, 97, 102>>,   \* traf
      <<1090, 1088, 1072, 1092>>,   \* (cyrillic)
      <<97, 114, 98, 105, 116, 114, 97, 103, 101>>,   \* arbitrage
      <<1072, 1088, 1073, 1080, 1090, 1088, 1072, 1078>>,   \* (cyrillic)
      <<115, 112, 111, 114, 116, 115, 98, 111, 111, 107>>,   \* sportsbook
      <<111, 102, 102, 101, 114, 115>>,   \* offers
      <<1086, 1092, 1092, 1077, 1088, 1099>>,   \* (cyrillic)
      <<1086, 1092, 1077, 1088, 1072>>,   \* (cyrillic)
      <<109, 97, 110, 97, 103, 101, 114>>,   \* manager
      <<1084, 1077, 1085, 1077, 1076, 1078, 1077, 1088>>,   \* (cyrillic)
      <<108, 101, 97, 100, 115>>,   \* leads
      <<1082, 1086, 1085, 1074, 1077, 1088, 1090>>,   \* (cyrillic)
      <<99, 111, 110, 118, 101, 114, 115, 105, 111, 110>>,   \* conversion
      <<109, 101, 100, 105, 97, 98, 117, 121>>,   \* mediabuy
      <<1084, 1077, 1076, 1080, 1072, 1073, 1072, 1081>>,   \* (cyrillic)
      <<119, 101, 98, 109, 97, 115, 116, 101, 114>>,   \* webmaster
      <<1074, 1077, 1073, 1084, 1072, 1089, 1090, 1077, 1088>>,   \* (cyrillic)
      <<110, 101, 116, 119, 111, 114, 107>>,   \* network
      <<1089, 1077, 1090, 1100>>,   \* (cyrillic)
      <<104, 121, 98, 114, 105, 100>>,   \* hybrid
      <<1075, 1080, 1073, 1088, 1080, 1076>>,   \* (cyrillic)
      <<108, 97, 110, 100, 105, 110, 103>>,   \* landing
      <<1083, 1077, 1085, 1076, 1080, 1085, 1075>>,   \* (cyrillic)
      <<105, 110, 118, 101, 115, 116, 109, 101, 110, 116>>,   \* investment
      <<1080, 1085, 1074, 1077, 1089, 1090>>,   \* (cyrillic)
      <<108, 105, 118, 101>>,   \* live
      <<100, 101, 112, 111, 115, 105, 116>>,   \* deposit
      <<1076, 1077, 1087, 1086, 1079, 1080, 1090>>,   \* (cyrillic)
      <<98, 105, 110, 103, 111>>,   \* bingo
      <<100, 105, 99, 101>>,   \* dice
      <<1082, 1086, 1089, 1090, 1080>>,   \* (cyrillic)
      <<99, 97, 114, 100, 115>>,   \* cards
      <<1082, 1072, 1088, 1090, 1099>>,   \* (cyrillic)
      <<119, 104, 101, 101, 108>>,   \* wheel
      <<114, 101, 101, 108>>,   \* reel
      <<98, 105, 122, 100, 101, 118>>,   \* bizdev
      <<98, 117, 115, 105, 110, 101, 115, 115, 32, 100, 101, 118, 101, 108, 111, 112, 109, 101, 110, 116>>,   \* business development
      <<103, 101, 111>>,   \* geo
      <<1075, 1077, 1086>>>>   \* (cyrillic)

\* str.lower() on the letters used here: A-Z, the Cyrillic capitals and Io.
LowerChar(c) == IF 65 <= c /\ c <= 90 THEN c + 32
                ELSE IF 1040 <= c /\ c <= 1071 THEN c + 32
                ELSE IF c = 1025 THEN 1105
                ELSE c

Lower(text) == [k \in DOMAIN text |-> LowerChar(text[k])]

\* kw in message_lower
IsSubstring(kw, text) ==
    \E p \in 1..(Len(text) - Len(kw) + 1) : SubSeq(text, p, p + Len(kw) - 1) = kw

\* A variant that looks for the terms in the text as it was given.
FoundKeywords_cased(text) ==
    SelectSeq(KEYWORDS, LAMBDA kw : IsSubstring(kw, text))

\* found_keywords = [kw for kw in GamingKeywords.KEYWORDS if kw in message_lower]
FoundKeywords(text) ==
    LET message_lower == Lower(text)
    IN SelectSeq(KEYWORDS, LAMBDA kw : IsSubstring(kw, message_lower))

\* ", ".join(found_keywords)
RECURSIVE JoinKeywords(_)
JoinKeywords(found) ==
    IF found = <<>> THEN <<>>
    ELSE IF Len(found) = 1 THEN found[1]
    ELSE found[1] \o <<44, 32>> \o JoinKeywords(Tail(found))

find_message_keywords(text) ==
    IF text = <<>> THEN <<>> ELSE JoinKeywords(FoundKeywords(text))

\* ------------------------------------------------------------------- state
VARIABLES
    pc,                   \* position in fetch_group_messages
    period_type, quantity, fast_mode,
    start_date, end_date,
    delivered,            \* messages iter_messages has handed out so far
    messages,             \* the list collected by the ingestion loop
    file,                 \* "absent", "open" or "closed"
    sink,                 \* content of the output file, the header first
    users_cache,
    common_groups_cache,
    i,                    \* number of messages the write loop has processed
    log

exportVars == <<pc, period_type, quantity, fast_mode, start_date, end_date,
                delivered, messages, file, sink, users_cache,
                common_groups_cache, i, log>>

\* add_users_to_group
VARIABLES
    add_pc,               \* position in add_users_to_group
    users,                \* the user list read from the input file
    add_method,
    n,                    \* number of finished iterations of the invite loop
    add_log

addVars == <<add_pc, users, add_method, n, add_log>>

\* process_csv_to_json and filter_users_with_gaming_keywords
VARIABLES
    agg_pc,               \* position in process_and_validate_data
    records,              \* the rows csv.DictReader yields for the chosen file
    csv_error,            \* what reading the file raised, "none" if nothing
    users_data,
    filtered_users

aggVars == <<agg_pc, records, csv_error, users_data, filtered_users>>

\* validate_user_with_ai
VARIABLES
    ai_pc,                \* position in validate_user_with_ai
    openrouter_api_key,
    response,             \* what "await client.post(...)" produced
    is_valid              \* the value returned to process_and_validate_data

aiVars == <<ai_pc, openrouter_api_key, response, is_valid>>

\* The date range of fetch_group_messages, on its own
VARIABLES
    win_pc,
    win_period_type, win_quantity,   \* what get_period_input returned
    win_now,                         \* the clock when the range was computed
    win_start_date, win_end_date

winVars == <<win_pc, win_period_type, win_quantity, win_now,
             win_start_date, win_end_date>>

\* find_message_keywords, on its own
VARIABLES
    kw_pc,
    kw_text,         \* the argument
    found_keywords,
    keyword_summary       \* the string returned

kwVars == <<kw_pc, kw_text, found_keywords, keyword_summary>>

\* upload_to_google_sheets
VARIABLES
    up_pc,                \* position in upload_to_google_sheets
    validated_users,      \* the keys of the mapping given, in its order
    worksheet,            \* the rows of the remote worksheet
    existing_rows,        \* what the probe counted, -1 before and without it
    start_row,            \* the row of range_name, 0 while there is none
    upload_data,
    uploaded              \* the value returned, "none" before the return

sheetVars == <<up_pc, validated_users, worksheet, existing_rows, start_row,
               upload_data, uploaded>>

\* run() of TelegramScraper and of FastTelegramScraper
VARIABLES
    run_pc,               \* position of the program, from launch to the end of run()
    entry,                \* the entry point: "main" or "fast"
    api_id, api_hash, phone,
    connected,            \* client.is_connected()
    menu_choice,          \* what the menu prompt returned
    operation,            \* the operation the dispatch started, "none" if none
    escaped,              \* the exception that left run(), "none" if none
    run_log

runVars == <<run_pc, entry, api_id, api_hash, phone, connected, menu_choice,
             operation, escaped, run_log>>

\* The validation loop of process_and_validate_data and
\* upload_existing_data_to_sheets
VARIABLES
    val_pc,               \* position in the operation
    val_operation,        \* which of the two operations runs
    candidates,           \* filtered_users, or the data of the selected file
    verdicts,             \* what validate_user_with_ai returned, per candidate
    val_validated,        \* validated_users of process_and_validate_data
    handed                \* the mapping given to upload_to_google_sheets

valVars == <<val_pc, val_operation, candidates, verdicts, val_validated, handed>>

vars == <<exportVars, addVars, aggVars, aiVars, winVars, kwVars, sheetVars,
          runVars, valVars>>

\* What each operation leaves alone: the state of the other operations.
nonExportVars == <<addVars, aggVars, aiVars, winVars, kwVars, sheetVars, runVars, valVars>>
nonAddVars    == <<exportVars, aggVars, aiVars, winVars, kwVars, sheetVars, runVars, valVars>>
nonAggVars    == <<exportVars, addVars, aiVars, winVars, kwVars, sheetVars, runVars, valVars>>
nonAiVars     == <<exportVars, addVars, aggVars, winVars, kwVars, sheetVars, runVars, valVars>>
nonWinVars    == <<exportVars, addVars, aggVars, aiVars, kwVars, sheetVars, runVars, valVars>>
nonKwVars     == <<exportVars, addVars, aggVars, aiVars, winVars, sheetVars, runVars, valVars>>
nonSheetVars  == <<exportVars, addVars, aggVars, aiVars, winVars, kwVars, runVars, valVars>>
nonRunVars    == <<exportVars, addVars, aggVars, aiVars, winVars, kwVars, sheetVars, valVars>>
nonValVars    == <<exportVars, addVars, aggVars, aiVars, winVars, kwVars, sheetVars, runVars>>

Header == <<"message_id", "date", "sender_id", "sender_username",
            "sender_name", "message_text", "group", "group_id",
            "sender_bio", "message_gaming_keywords", "sender_common_groups">>

PeriodChoices == {"1", "2", "3", "9"}
period_map(c) == CASE c = "1" -> "days" [] c = "2" -> "weeks"
                   [] c = "3" -> "months" [] OTHER -> None

\* A variant that takes a month for 31 days.
Delta_31(pt, q) == CASE pt = "days" -> q [] pt = "weeks" -> 7 * q [] pt = "months" -> q * 31

\* timedelta(days=q), timedelta(weeks=q), timedelta(days=q * 30), in days
Delta(pt, q) == CASE pt = "days" -> q [] pt = "weeks" -> 7 * q [] pt = "months" -> q * 30

Init ==
    /\ pc = "input"
    /\ period_type = None /\ quantity = 0 /\ fast_mode = FALSE
    /\ start_date = 0 /\ end_date = 0
    /\ delivered = <<>> /\ messages = <<>>
    /\ file = "absent" /\ sink = <<>>
    /\ users_cache = [u \in {} |-> EmptyInfo]
    /\ common_groups_cache = NoneCache
    /\ i = 0
    /\ log = <<>>
    /\ add_pc = "input"
    /\ users = <<>>
    /\ add_method = 0
    /\ n = 0
    /\ add_log = <<>>
    /\ agg_pc = "input"
    /\ records = <<>>
    /\ csv_error = "none"
    /\ users_data = <<>>
    /\ filtered_users = <<>>
    /\ ai_pc = "input"
    /\ openrouter_api_key = ""
    /\ response = NoResponse
    /\ is_valid = PyFalse
    /\ win_pc = "input"
    /\ win_period_type = None /\ win_quantity = 0
    /\ win_now = 0 /\ win_start_date = 0 /\ win_end_date = 0
    /\ kw_pc = "input"
    /\ kw_text = <<>>
    /\ found_keywords = <<>>
    /\ keyword_summary = <<>>
    /\ up_pc = "input"
    /\ validated_users = <<>>
    /\ worksheet = <<>>
    /\ existing_rows = -1
    /\ start_row = 0
    /\ upload_data = <<>>
    /\ uploaded = "none"
    /\ run_pc = "start"
    /\ entry = "main"
    /\ api_id = "" /\ api_hash = "" /\ phone = ""
    /\ connected = FALSE
    /\ menu_choice = ""
    /\ operation = "none"
    /\ escaped = "none"
    /\ run_log = <<>>
    /\ val_pc = "input"
    /\ val_operation = "none"
    /\ candidates = <<>>
    /\ verdicts = <<>>
    /\ val_validated = <<>>
    /\ handed = <<>>

\* get_period_input, get_processing_mode and the date range
ResolveWindow ==
    /\ UNCHANGED nonExportVars
    /\ pc = "input"
    /\ \E c \in PeriodChoices, q \in 1..MaxQuantity, fm \in BOOLEAN :
         LET pt == period_map(c) IN
         IF pt = None
         THEN /\ pc' = "returned"
              /\ UNCHANGED <<period_type, quantity, fast_mode, start_date, end_date>>
         ELSE /\ pc' = "fetching"
              /\ period_type' = pt /\ quantity' = q /\ fast_mode' = fm
              /\ end_date' = NowUTC
              /\ start_date' = NowUTC - Delta(pt, q)
    /\ UNCHANGED <<delivered, messages, file, sink, users_cache,
                   common_groups_cache, i, log>>

\* The dates the source stamps on a message: around both ends of the window.
MessageDates == {end_date + 1, end_date, start_date, start_date - 1}

\* message.sender is read by the write loop only, so the messages the
\* ingestion loop does not collect are drawn without a sender.  The two
\* ordinary users are interchangeable: "u2" names the second one to appear.
InWindow(d) == start_date <= d /\ d <= end_date

LastDate == IF delivered = <<>> THEN end_date + 1 ELSE delivered[Len(delivered)].date

\* After the ingestion loop: the file is created, the header is written and
\* the write loop starts; with no message the with-block ends at once.
SaveStart(msgs) ==
    /\ sink' = <<Header>>
    /\ file' = IF msgs = <<>> THEN "closed" ELSE "open"
    /\ pc'   = IF msgs = <<>> THEN "done" ELSE "writing"

\* "if message.date < start_date: break" and "if message.date <= end_date"
BeforeStart(d) == d < start_date

\* A variant that leaves out the messages dated exactly end_date.
NotAfterEnd_strict(d) == d < end_date
NotAfterEnd(d) == d <= end_date

\* One iteration of "async for message in client.iter_messages(group)".
FetchMessage ==
    /\ UNCHANGED nonExportVars
    /\ pc = "fetching"
    /\ \E d \in MessageDates, s \in Senders \cup {NoSender} :
         /\ d <= LastDate
         /\ InWindow(d) \/ s = NoSender
         /\ s = "u2" => \E k \in DOMAIN messages : messages[k].sender = "u1"
         /\ InWindow(d) => Len(messages) < MaxMsgs
         /\ d > end_date => Len(delivered) < MaxSkipped
         /\ LET message == [id |-> Len(delivered) + 1, date |-> d, sender |-> s,
                            message |-> Body(Len(delivered) + 1)] IN
            /\ delivered' = Append(delivered, message)
            /\ IF BeforeStart(message.date)
               THEN /\ messages' = messages
                    /\ SaveStart(messages)
               ELSE /\ messages' = IF NotAfterEnd(message.date)
                                   THEN Append(messages, message) ELSE messages
                    /\ UNCHANGED <<pc, file, sink>>
    /\ UNCHANGED <<period_type, quantity, fast_mode, start_date, end_date,
                   users_cache, common_groups_cache, i, log>>

\* The source is exhausted: the loop ends normally.
FetchEnd ==
    /\ UNCHANGED nonExportVars
    /\ pc = "fetching"
    /\ SaveStart(messages)
    /\ UNCHANGED <<period_type, quantity, fast_mode, start_date, end_date,
                   delivered, messages, users_cache, common_groups_cache, i, log>>

\* Errors iter_messages can raise; FloodWaitError is an Exception too.
StreamErrors == {[name |-> "Exception", secs |-> 0]}
                  \cup {[name |-> "FloodWaitError", secs |-> s] : s \in FloodSeconds}

\* A variant that saves what was collected before the error.
FetchError_partial ==
    /\ UNCHANGED nonExportVars
    /\ pc = "fetching"
    /\ \E e \in StreamErrors :
         log' = log \o <<Ev(e.name, "iter_messages", e.secs), Ev("print", "iter_messages", 0)>>
    /\ SaveStart(messages)
    /\ UNCHANGED <<period_type, quantity, fast_mode, start_date, end_date,
                   delivered, messages, users_cache, common_groups_cache, i>>

\* iter_messages raises: "except Exception" prints the error and returns.
FetchError ==
    /\ UNCHANGED nonExportVars
    /\ pc = "fetching"
    /\ \E e \in StreamErrors :
         log' = log \o <<Ev(e.name, "iter_messages", e.secs), Ev("print", "iter_messages", 0)>>
    /\ pc' = "failed"
    /\ UNCHANGED <<period_type, quantity, fast_mode, start_date, end_date,
                   delivered, messages, file, sink, users_cache,
                   common_groups_cache, i>>

\* A variant that ignores fast_mode.
ResolveSender_always_detailed(sender, dres, pres) ==
    LET r == get_user_detailed_info(sender, common_groups_cache, dres, pres)
    IN [r EXCEPT !.events = @ \o <<Ev("sleep", sender, api_delay_ms)>>]

\* The branch of the write loop that resolves a sender missing from
\* users_cache: the lookup result, the cache afterwards and the events.
ResolveSender(sender, dres, pres) ==
    IF fast_mode
    THEN get_user_fast_info(sender, common_groups_cache, dres)
    ELSE LET is_bot     == Bot(sender)
             is_channel == HasChannelInName(ClassName(sender))
         IN IF is_bot \/ is_channel
            THEN get_user_fast_info(sender, common_groups_cache, dres)
            ELSE LET r == get_user_detailed_info(sender, common_groups_cache, dres, pres)
                 IN [r EXCEPT !.events = @ \o <<Ev("sleep", sender, api_delay_ms)>>]

\* A variant that keeps only the newest entry.
CacheStore_newest_only(cache, sender, user_info) ==
    [u \in {sender} |-> user_info]

\* A variant that does not memoize a lookup that found no bio.
CacheStore_unless_empty(cache, sender, user_info) ==
    IF user_info.bio = "" THEN cache
    ELSE [u \in DOMAIN cache \cup {sender} |-> IF u = sender THEN user_info ELSE cache[u]]

\* users_cache[sender_info["id"]] = user_info
CacheStore(cache, sender, user_info) ==
    [u \in DOMAIN cache \cup {sender} |-> IF u = sender THEN user_info ELSE cache[u]]

\* A variant that puts the new row right after the header.
writerow_first(snk, row) == <<snk[1], row>> \o Tail(snk)

\* writer.writerow(row)
writerow(snk, row) == Append(snk, row)

\* message_text and message_keywords of the write loop for every text the
\* source attaches, worked out once: the text after the two replacements and
\* find_message_keywords of that text.
TextAndKeywords ==
    [body \in {Bodies[k] : k \in DOMAIN Bodies} |->
       [message_text     |-> MessageText(body),
        message_keywords |-> find_message_keywords(MessageText(body))]]

\* A variant that looks for keywords only when the message has a sender.
Row_keywords_with_sender(message, sender_info) ==
    LET message_text == TextAndKeywords[message.message].message_text
        message_keywords == IF sender_info.id = "" THEN <<>>
                            ELSE TextAndKeywords[message.message].message_keywords
    IN <<message.id, message.date, sender_info.id, sender_info.username,
         sender_info.name, message_text, target_group.title, target_group.id,
         sender_info.bio, message_keywords, sender_info.common_groups>>

\* A variant that writes message.message as it is.
Row_raw_text(message, sender_info) ==
    <<message.id, message.date, sender_info.id, sender_info.username,
      sender_info.name, message.message, target_group.title, target_group.id,
      sender_info.bio, TextAndKeywords[message.message].message_keywords,
      sender_info.common_groups>>

\* The list given to writer.writerow for a message.
Row(message, sender_info) ==
    LET message_text == TextAndKeywords[message.message].message_text
        message_keywords == TextAndKeywords[message.message].message_keywords
    IN <<message.id, message.date, sender_info.id, sender_info.username,
         sender_info.name, message_text, target_group.title, target_group.id,
         sender_info.bio, message_keywords, sender_info.common_groups>>

\* One iteration of the write loop; the iteration that processes the last
\* message also leaves the with-block, which closes the file.
ProcessMessage ==
    /\ UNCHANGED nonExportVars
    /\ pc = "writing"
    /\ LET message == messages[i + 1] IN
       LET cached == message.sender \in DOMAIN users_cache IN
       \E r \in IF message.sender = NoSender \/ cached
                THEN {[info |-> EmptyInfo, cache |-> common_groups_cache, events |-> <<>>]}
                ELSE {ResolveSender(message.sender, dres, pres) :
                        dres \in DialogOutcomes, pres \in ProfileOutcomes} :
         LET user_info == IF cached THEN users_cache[message.sender] ELSE r.info
             sender_info ==
                 IF message.sender = NoSender
                 THEN [id |-> "", username |-> <<>>, name |-> <<>>,
                       bio |-> "", common_groups |-> <<>>]
                 ELSE [id |-> message.sender,
                       username |-> SenderUsername(message.sender),
                       name |-> SenderName(message.sender),
                       bio |-> user_info.bio,
                       common_groups |-> user_info.common_groups]
         IN /\ IF message.sender # NoSender /\ ~cached
               THEN /\ users_cache' = CacheStore(users_cache, message.sender, r.info)
                    /\ common_groups_cache' = r.cache
                    /\ log' = log \o <<Ev("resolve", message.sender, 0)>> \o r.events
               ELSE UNCHANGED <<users_cache, common_groups_cache, log>>
            /\ sink' = writerow(sink, Row(message, sender_info))
    /\ i' = i + 1
    /\ IF i + 1 = Len(messages)
       THEN file' = "closed" /\ pc' = "done"
       ELSE UNCHANGED <<file, pc>>
    /\ UNCHANGED <<period_type, quantity, fast_mode, start_date, end_date,
                   delivered, messages>>

Next ==
    \/ ResolveWindow
    \/ FetchMessage
    \/ FetchEnd
    \/ FetchError
    \/ ProcessMessage

Spec == Init /\ [][Next]_vars

\* What can end the write loop early: an exception raised in an iteration
\* (by the formatting of the row or by writer.writerow) or the interruption of
\* the user; neither is caught inside the with-block.
AbortErrors == {"Exception", "KeyboardInterrupt"}

\* A variant in which the file stays open when the loop is left early.
CloseOnExit_normal_only(f, exc) == IF exc = "none" THEN "closed" ELSE f

\* The exit of "with open(...) as file": the file is closed however the block
\* is left.
CloseOnExit(f, exc) == "closed"

\* An iteration of the write loop that does not finish: the error arrives
\* before the sender is looked up, or after the lookup and before the row is
\* written.  The with-block is left and fetch_group_messages with it.
WriteAbort ==
    /\ UNCHANGED nonExportVars
    /\ pc = "writing"
    /\ LET message == messages[i + 1] IN
       LET cached == message.sender \in DOMAIN users_cache IN
       \E e \in AbortErrors :
       \E r \in {[info |-> EmptyInfo, cache |-> common_groups_cache, events |-> <<>>]}
                \cup (IF message.sender = NoSender \/ cached THEN {}
                      ELSE {ResolveSender(message.sender, dres, pres) :
                              dres \in DialogOutcomes, pres \in ProfileOutcomes}) :
         /\ IF r.events # <<>>
            THEN /\ users_cache' = CacheStore(users_cache, message.sender, r.info)
                 /\ common_groups_cache' = r.cache
                 /\ log' = log \o <<Ev("resolve", message.sender, 0)>> \o r.events
                                \o <<Ev(e, "write_loop", 0)>>
            ELSE /\ UNCHANGED <<users_cache, common_groups_cache>>
                 /\ log' = Append(log, Ev(e, "write_loop", 0))
         /\ file' = CloseOnExit(file, e)
    /\ pc' = "aborted"
    /\ UNCHANGED <<period_type, quantity, fast_mode, start_date, end_date,
                   delivered, messages, sink, i>>

NextAbort ==
    \/ Next
    \/ WriteAbort

SpecAbort == Init /\ [][NextAbort]_vars
\* ------------------------------------------------------ add_users_to_group
UserNames == <<"a", "b", "c", "d", "e">>

\* The input file is read, the group and the method are entered.
AddStart ==
    /\ add_pc = "input"
    /\ \E len \in 0..MaxUsers, m \in {1, 2, 3} :
         /\ users' = SubSeq(UserNames, 1, len)
         /\ add_method' = m
         /\ add_pc' = IF len = 0 THEN "done" ELSE "adding"
    /\ UNCHANGED <<n, add_log>>
    /\ UNCHANGED nonAddVars

\* What one iteration of the invite loop can meet: the call that raised
\* (or "none") and the error.
InviteErrors == {[name |-> e, secs |-> 0] :
                    e \in {"PeerFloodError", "UserPrivacyRestrictedError", "Exception"}}
                  \cup {[name |-> "FloodWaitError", secs |-> s] : s \in FloodSeconds}

IterationOutcomes(method) ==
    {[at |-> "none", err |-> [name |-> "ok", secs |-> 0]]}
      \cup {[at |-> "InviteToChannelRequest", err |-> e] : e \in InviteErrors}
      \cup IF method = 1
           THEN {[at |-> "get_input_entity", err |-> e] :
                    e \in {x \in InviteErrors : x.name \in {"Exception", "FloodWaitError"}}}
           ELSE {}

\* The except clauses of the invite loop: does the handler leave the loop,
\* and what it does before the loop goes on.
\* A variant in which the privacy clause leaves the loop too.
HandlerBreaks_privacy(err) == err.name \in {"PeerFloodError", "UserPrivacyRestrictedError"}

HandlerBreaks(err) == err.name = "PeerFloodError"
HandlerEvents(user, err) ==
    IF err.name = "FloodWaitError"
    THEN <<Ev("sleep", user, err.secs * 1000)>>
    ELSE <<>>

\* A variant that stays on the same user after a flood wait.
NextIndex_retry_after_flood(k, err) == IF err.name = "FloodWaitError" THEN k ELSE k + 1

\* The index of the user the loop handles after an iteration that met err.
NextIndex(k, err) == k + 1

\* The remote calls of the try block, up to the one that raised.
TryEvents(user, method, o) ==
    (IF method = 1 THEN <<Ev("get_input_entity", user, 0)>> ELSE <<>>)
      \o (IF o.at = "get_input_entity" THEN <<>>
          ELSE <<Ev("InviteToChannelRequest", user, 0)>>)
      \o (IF o.at = "none" THEN <<Ev("sleep", user, invite_delay_ms)>>
          ELSE <<Ev(o.err.name, user, o.err.secs)>>)

\* One iteration of "for i, user in enumerate(users)".
InviteStep ==
    /\ add_pc = "adding"
    /\ LET user == users[n + 1] IN
       IF add_method \notin {1, 2}
       THEN /\ add_pc' = "done"
            /\ UNCHANGED <<n, add_log>>
       ELSE \E o \in IterationOutcomes(add_method) :
              /\ add_log' = add_log \o TryEvents(user, add_method, o)
                                    \o (IF o.at = "none" THEN <<>> ELSE HandlerEvents(user, o.err))
              /\ n' = IF o.at = "none" THEN n + 1 ELSE NextIndex(n, o.err)
              /\ add_pc' = IF (o.at # "none" /\ HandlerBreaks(o.err)) \/ n' >= Len(users)
                           THEN "done" ELSE "adding"
    /\ UNCHANGED <<users, add_method>>
    /\ UNCHANGED nonAddVars

NextAdd ==
    \/ AddStart
    \/ InviteStep

SpecAdd == Init /\ [][NextAdd]_vars

\* The bulk add with its scheduling: every remote call returns or raises and
\* every sleep ends, so an iteration that can be taken is taken.
SpecAddLive == Init /\ [][NextAdd]_vars /\ WF_vars(NextAdd)
\* ------------------------------ process_csv_to_json and the keyword filter
Whitespace == {9, 10, 13, 32}

\* The sender columns of a CSV row vary together: an export without the "@"
\* prefix (FastTelegramScraper), one with it (TelegramTools), one all empty.
CsvProfiles ==
    {[sender_username |-> <<98>>, sender_name |-> "n1", sender_bio |-> "b1",
      sender_common_groups |-> "g1"],
     [sender_username |-> <<At, 99>>, sender_name |-> "n2", sender_bio |-> "b2",
      sender_common_groups |-> "g2"],
     [sender_username |-> <<>>, sender_name |-> "", sender_bio |-> "",
      sender_common_groups |-> ""]}

CsvSenderIds == {"", "1", "2"}

\* message_gaming_keywords of a row: "" or "bet"
CsvKeywordSummaries == {<<>>, <<98, 101, 116>>}

CsvRow(k, sid, p, kw) ==
    [message_id |-> k, date |-> k, sender_id |-> sid,
     sender_username |-> p.sender_username, sender_name |-> p.sender_name,
     message_text |-> "t", group |-> "G", group_id |-> "10",
     sender_bio |-> p.sender_bio, message_gaming_keywords |-> kw,
     sender_common_groups |-> p.sender_common_groups]

MessageData(row) ==
    [message_id |-> row.message_id, date |-> row.date,
     message_text |-> row.message_text,
     message_gaming_keywords |-> row.message_gaming_keywords]

NewAggregate(row) ==
    [sender_id            |-> row.sender_id,
     sender_username      |-> AtPrefix(row.sender_username),
     sender_name          |-> row.sender_name,
     sender_bio           |-> row.sender_bio,
     sender_common_groups |-> row.sender_common_groups,
     group                |-> row.group,
     group_id             |-> row.group_id,
     messages             |-> <<>>]

\* A variant that keeps only the message of the row that creates the aggregate.
AggregateRow_first_only(ud, row) ==
    IF row.sender_id = "" \/ row.sender_id \in DOMAIN ud THEN ud
    ELSE [id \in DOMAIN ud \cup {row.sender_id} |->
            IF id = row.sender_id
            THEN [NewAggregate(row) EXCEPT !.messages = <<MessageData(row)>>]
            ELSE ud[id]]

\* A variant that rewrites the sender fields from every row of the sender.
AggregateRow_overwrite(ud, row) ==
    IF row.sender_id = "" THEN ud
    ELSE LET old == IF row.sender_id \in DOMAIN ud
                    THEN ud[row.sender_id].messages ELSE <<>>
         IN [id \in DOMAIN ud \cup {row.sender_id} |->
               IF id = row.sender_id
               THEN [NewAggregate(row) EXCEPT !.messages = Append(old, MessageData(row))]
               ELSE ud[id]]

\* One iteration of "for row in reader".
AggregateRow(ud, row) ==
    IF row.sender_id = "" THEN ud
    ELSE LET base == IF row.sender_id \in DOMAIN ud
                     THEN ud[row.sender_id] ELSE NewAggregate(row)
         IN [id \in DOMAIN ud \cup {row.sender_id} |->
               IF id = row.sender_id
               THEN [base EXCEPT !.messages = Append(@, MessageData(row))]
               ELSE ud[id]]

RECURSIVE AggregateRows(_, _)
AggregateRows(rows, ud) ==
    IF rows = <<>> THEN ud
    ELSE AggregateRows(Tail(rows), AggregateRow(ud, Head(rows)))

CsvErrors == {"none", "FileNotFoundError", "Exception"}

\* Both except clauses print the error and return {}.
process_csv_to_json(rows, err) ==
    IF err # "none" THEN <<>> ELSE AggregateRows(rows, <<>>)

\* str.strip()
RECURSIVE LStrip(_)
LStrip(s) == IF s # <<>> /\ Head(s) \in Whitespace THEN LStrip(Tail(s)) ELSE s

RECURSIVE RStrip(_)
RStrip(s) == IF s # <<>> /\ s[Len(s)] \in Whitespace
             THEN RStrip(SubSeq(s, 1, Len(s) - 1)) ELSE s

Strip(s) == RStrip(LStrip(s))

\* A variant that looks at the first message only.
HasKeywords_first(user_data) ==
    /\ user_data.messages # <<>>
    /\ Strip(user_data.messages[1].message_gaming_keywords) # <<>>

\* The flag has_gaming_keywords after the loop over user_data["messages"].
HasKeywords(user_data) ==
    \E k \in DOMAIN user_data.messages :
       Strip(user_data.messages[k].message_gaming_keywords) # <<>>

\* A variant that also deletes the other users from its argument.
filter_users_with_gaming_keywords_inplace(ud) ==
    LET kept == [id \in {x \in DOMAIN ud : HasKeywords(ud[x])} |-> ud[id]]
    IN [filtered_users |-> kept, users_data |-> kept]

\* The mapping returned, and the argument as the call leaves it.
filter_users_with_gaming_keywords(ud) ==
    [filtered_users |-> [id \in {x \in DOMAIN ud : HasKeywords(ud[x])} |-> ud[id]],
     users_data     |-> ud]

\* The file is chosen and csv.DictReader yields its rows.
ReadCsv ==
    /\ agg_pc = "input"
    /\ \E len \in 0..MaxRecords :
         \E f \in [1..len -> CsvSenderIds \X CsvProfiles \X CsvKeywordSummaries] :
            records' = [k \in 1..len |-> CsvRow(k, f[k][1], f[k][2], f[k][3])]
    /\ agg_pc' = "read"
    /\ UNCHANGED <<csv_error, users_data, filtered_users>>
    /\ UNCHANGED nonAggVars

\* Step 1 of process_and_validate_data: it returns when the result is empty.
AggregateCsv ==
    /\ agg_pc = "read"
    /\ \E err \in CsvErrors :
         /\ csv_error' = err
         /\ users_data' = process_csv_to_json(records, err)
    /\ agg_pc' = IF users_data' = <<>> THEN "returned" ELSE "aggregated"
    /\ UNCHANGED <<records, filtered_users>>
    /\ UNCHANGED nonAggVars

\* Step 2 of process_and_validate_data.
FilterUsers ==
    /\ agg_pc = "aggregated"
    /\ LET r == filter_users_with_gaming_keywords(users_data) IN
         /\ filtered_users' = r.filtered_users
         /\ users_data' = r.users_data
    /\ agg_pc' = "filtered"
    /\ UNCHANGED <<records, csv_error>>
    /\ UNCHANGED nonAggVars

NextAgg ==
    \/ ReadCsv
    \/ AggregateCsv
    \/ FilterUsers

SpecAgg == Init /\ [][NextAgg]_vars
\* -------------------------------------------- validate_user_with_ai, steps
ApiKeys == {"", "sk-or-1"}

\* Up to "await client.post(...)": without a key the function returns False
\* at once.
PostRequest ==
    /\ ai_pc = "input"
    /\ \E key \in ApiKeys :
         /\ openrouter_api_key' = key
         /\ IF key = ""
            THEN ai_pc' = "returned" /\ is_valid' = PyFalse /\ response' = response
            ELSE /\ ai_pc' = "posted"
                 /\ response' \in Responses
                 /\ is_valid' = is_valid
    /\ UNCHANGED nonAiVars

\* From the answer of the POST to the return.
ReturnVerdict ==
    /\ ai_pc = "posted"
    /\ is_valid' = HandleReply(response)
    /\ ai_pc' = "returned"
    /\ UNCHANGED <<openrouter_api_key, response>>
    /\ UNCHANGED nonAiVars

NextAi ==
    \/ PostRequest
    \/ ReturnVerdict

SpecAi == Init /\ [][NextAi]_vars
\* ------------------------------------------------------- the date range
\* The readings of the clock, in days.
Clock == {NowUTC - 1, NowUTC, NowUTC + 1}

\* get_period_input: int(input()) accepts zero and negative numbers too.
EnterPeriod ==
    /\ win_pc = "input"
    /\ \E c \in PeriodChoices, q \in -1..MaxCount :
         LET pt == period_map(c) IN
         IF pt = None
         THEN /\ win_pc' = "returned"
              /\ UNCHANGED <<win_period_type, win_quantity>>
         ELSE /\ win_pc' = "entered"
              /\ win_period_type' = pt /\ win_quantity' = q
    /\ UNCHANGED <<win_now, win_start_date, win_end_date>>
    /\ UNCHANGED nonWinVars

\* "Calculate date range"
ComputeDateRange ==
    /\ win_pc = "entered"
    /\ \E now \in Clock :
         /\ win_now' = now
         /\ win_end_date' = now
         /\ win_start_date' = now - Delta(win_period_type, win_quantity)
    /\ win_pc' = "computed"
    /\ UNCHANGED <<win_period_type, win_quantity>>
    /\ UNCHANGED nonWinVars

NextWindow ==
    \/ EnterPeriod
    \/ ComputeDateRange

SpecWindow == Init /\ [][NextWindow]_vars
\* ------------------------------------------ find_message_keywords, steps
\* The pieces the texts given to the matcher are put together from.
Fragments ==
    {<<98, 101, 116>>,   \* 'bet'
     <<116, 105, 110, 103>>,   \* 'ting'
     <<71, 69, 79>>,   \* 'GEO'
     <<71, 97, 109, 101>>,   \* 'Game'
     <<115>>,   \* 's'
     <<32>>,   \* ' '
     <<67, 65, 83, 73, 78, 79>>,   \* 'CASINO'
     <<1050, 1072, 1079, 1080, 1085, 1086>>,   \* Kazino in Cyrillic, capital first
     <<120>>}   \* 'x'

\* "I love CASINO games"
SampleText == <<73, 32, 108, 111, 118, 101, 32, 67, 65, 83, 73, 78, 79, 32, 103, 97, 109, 101, 115>>

RECURSIVE Texts(_)
Texts(len) ==
    IF len = 0 THEN {<<>>}
    ELSE Texts(len - 1) \cup {t \o f : t \in Texts(len - 1), f \in Fragments}

GiveText ==
    /\ kw_pc = "input"
    /\ kw_text' \in Texts(MaxFragments) \cup {SampleText}
    /\ kw_pc' = "given"
    /\ UNCHANGED <<found_keywords, keyword_summary>>
    /\ UNCHANGED nonKwVars

MatchKeywords ==
    /\ kw_pc = "given"
    /\ found_keywords' = IF kw_text = <<>> THEN <<>> ELSE FoundKeywords(kw_text)
    /\ keyword_summary' = find_message_keywords(kw_text)
    /\ kw_pc' = "matched"
    /\ UNCHANGED kw_text
    /\ UNCHANGED nonKwVars

NextKw ==
    \/ GiveText
    \/ MatchKeywords

SpecKw == Init /\ [][NextKw]_vars
\* ----------------------------------------------- upload_to_google_sheets
\* A row of the worksheet is given by its kind and its first column.
HeadersRow == [kind |-> "headers", sender_id |-> "Sender ID"]
UserRow(id) == [kind |-> "user", sender_id |-> id]

\* prepare_sheets_data: the headers, then one row per user in mapping order
prepare_sheets_data(ids) == <<HeadersRow>> \o [k \in DOMAIN ids |-> UserRow(ids[k])]

ValidatedIds == <<"1", "2", "3", "4">>
EarlierIds   == <<"o1", "o2", "o3", "o4", "o5">>

\* What the named worksheet can hold before the upload: nothing, or the
\* headers and the rows of earlier uploads.
ExistingSheets ==
    {SubSeq(prepare_sheets_data(EarlierIds), 1, k) : k \in 0..MaxSheetRows}

\* A variant that appends the headers too.
UploadPlan_with_headers(rows, probe, count) ==
    IF probe = "ok" /\ count > 0
    THEN [start_row |-> count + 1, upload_data |-> rows]
    ELSE [start_row |-> 1, upload_data |-> rows]

\* range_name and upload_data after the probe (probe is "ok" or "HttpError")
UploadPlan(rows, probe, count) ==
    IF probe = "ok" /\ count > 0
    THEN [start_row |-> count + 1, upload_data |-> Tail(rows)]
    ELSE [start_row |-> 1, upload_data |-> rows]

\* values().update(range=A<start>, body={"values": data}) on the worksheet
UpdateValues(sheet, start, data) ==
    LET last == IF Len(sheet) > start + Len(data) - 1
                THEN Len(sheet) ELSE start + Len(data) - 1
    IN [r \in 1..last |->
          IF start <= r /\ r <= start + Len(data) - 1 THEN data[r - start + 1]
          ELSE sheet[r]]

\* Up to the probe; choice 1 creates a spreadsheet with an empty worksheet of
\* the configured name, choice 2 names an existing one, any other skips.
UploadStart ==
    /\ up_pc = "input"
    /\ \E available \in BOOLEAN, len \in 0..MaxValidated, choice \in {"1", "2", "3"},
          service_ok \in BOOLEAN, created \in BOOLEAN, sheet \in ExistingSheets :
         /\ validated_users' = SubSeq(ValidatedIds, 1, len)
         /\ IF ~available \/ len = 0
            THEN uploaded' = "False" /\ up_pc' = "returned" /\ worksheet' = worksheet
            ELSE IF choice = "3"
            THEN uploaded' = "True" /\ up_pc' = "returned" /\ worksheet' = worksheet
            ELSE IF ~service_ok \/ (choice = "1" /\ ~created)
            THEN uploaded' = "False" /\ up_pc' = "returned" /\ worksheet' = worksheet
            ELSE /\ uploaded' = uploaded
                 /\ up_pc' = "probing"
                 /\ worksheet' = IF choice = "1" THEN <<>> ELSE sheet
    /\ UNCHANGED <<existing_rows, start_row, upload_data>>
    /\ UNCHANGED nonSheetVars

ProbeOutcomes == {"ok", "HttpError", "Exception"}

\* values().get(range="<worksheet>!A:A"): the count of rows, an HttpError,
\* which the inner handler turns into a write from row 1, or another
\* exception, which the outer handler turns into False.
ProbeRows ==
    /\ up_pc = "probing"
    /\ \E probe \in ProbeOutcomes :
         LET rows == prepare_sheets_data(validated_users)
             count == IF probe = "ok" THEN Len(worksheet) ELSE -1
             plan == UploadPlan(rows, probe, count)
         IN /\ existing_rows' = count
            /\ IF probe = "Exception"
               THEN /\ uploaded' = "False" /\ up_pc' = "returned"
                    /\ UNCHANGED <<start_row, upload_data>>
               ELSE /\ start_row' = plan.start_row
                    /\ upload_data' = plan.upload_data
                    /\ uploaded' = uploaded /\ up_pc' = "updating"
    /\ UNCHANGED <<validated_users, worksheet>>
    /\ UNCHANGED nonSheetVars

\* values().update(...).execute() and the return
UpdateRows ==
    /\ up_pc = "updating"
    /\ \E ok \in BOOLEAN :
         IF ok
         THEN /\ worksheet' = UpdateValues(worksheet, start_row, upload_data)
              /\ uploaded' = "True"
         ELSE /\ worksheet' = worksheet
              /\ uploaded' = "False"
    /\ up_pc' = "returned"
    /\ UNCHANGED <<validated_users, existing_rows, start_row, upload_data>>
    /\ UNCHANGED nonSheetVars

NextSheets ==
    \/ UploadStart
    \/ ProbeRows
    \/ UpdateRows

SpecSheets == Init /\ [][NextSheets]_vars

\* ------------------------------------------------------------------ run()
\* The two entry points: main.py (TelegramScraper, whose operations are those
\* of TelegramTools) and fast_telegram_scraper.py (FastTelegramScraper).
EntryPoints == {"main", "fast"}

\* A credential as configured; "" is a missing or an empty one (Settings
\* gives a missing api_id the default 0 and the others the default "").
Credentials == {"", "set"}

\* "not api_id or not api_hash or not phone"
MissingCredential(a, h, p) == a = "" \/ h = "" \/ p = ""

\* How the connection can go: the session is authorized, the code is asked
\* and accepted, connect() raises, the user interrupts the code prompt, or
\* sign_in raises.
ConnectOutcomes == {"authorized", "signed_in", "connect_error",
                    "code_interrupt", "sign_in_error"}

\* connect(), is_user_authorized(), send_code_request(), input(), sign_in()
ConnectEvents(o) ==
    <<Ev("connect", "client", 0)>> \o
    (CASE o = "connect_error" -> <<Ev("Exception", "connect", 0)>>
       [] o = "authorized" -> <<Ev("is_user_authorized", "client", 0)>>
       [] o = "signed_in" ->
            <<Ev("is_user_authorized", "client", 0),
              Ev("send_code_request", "client", 0),
              Ev("input", "code", 0),
              Ev("sign_in", "client", 0)>>
       [] o = "code_interrupt" ->
            <<Ev("is_user_authorized", "client", 0),
              Ev("send_code_request", "client", 0),
              Ev("KeyboardInterrupt", "input", 0)>>
       [] o = "sign_in_error" ->
            <<Ev("is_user_authorized", "client", 0),
              Ev("send_code_request", "client", 0),
              Ev("input", "code", 0),
              Ev("sign_in", "client", 0),
              Ev("Exception", "sign_in", 0)>>)

ConnectRaises(o) ==
    CASE o \in {"connect_error", "sign_in_error"} -> "Exception"
      [] o = "code_interrupt" -> "KeyboardInterrupt"
      [] OTHER -> "none"

\* A variant that validates the credentials after connecting.
connect_client_check_last(a, h, p, o) ==
    IF o = "connect_error"
    THEN [events |-> ConnectEvents(o), raises |-> "Exception", connected |-> FALSE]
    ELSE IF MissingCredential(a, h, p)
    THEN [events    |-> <<Ev("print", "connecting", 0), Ev("connect", "client", 0),
                          Ev("print", "configuration_error", 0)>>,
          raises    |-> "ValueError",
          connected |-> TRUE]
    ELSE [events    |-> <<Ev("print", "connecting", 0)>> \o ConnectEvents(o),
          raises    |-> ConnectRaises(o),
          connected |-> TRUE]

\* TelegramTools.connect_client: the credentials are validated first, and the
\* ValueError is raised again after the configuration error is printed.
connect_client(a, h, p, o) ==
    IF MissingCredential(a, h, p)
    THEN [events    |-> <<Ev("print", "configuration_error", 0)>>,
          raises    |-> "ValueError",
          connected |-> FALSE]
    ELSE [events    |-> <<Ev("print", "connecting", 0)>> \o ConnectEvents(o),
          raises    |-> ConnectRaises(o),
          connected |-> o # "connect_error"]

\* FastTelegramScraper.connect
connect(o) ==
    [events    |-> <<Ev("print", "connecting", 0)>> \o ConnectEvents(o),
     raises    |-> ConnectRaises(o),
     connected |-> o # "connect_error"]

\* The except clauses and the finally clause of TelegramScraper.run: every
\* exception is answered by a message, and the client is disconnected if
\* is_connected() says so.
MainHandlers(exc, conn) ==
    [events    |-> (CASE exc = "none" -> <<>>
                      [] exc = "ValueError" -> <<Ev("print", "numeric_value", 0)>>
                      [] exc = "KeyboardInterrupt" -> <<Ev("print", "interrupted", 0)>>
                      [] OTHER -> <<Ev("print", "error", 0)>>) \o
                   (IF conn THEN <<Ev("print", "disconnecting", 0),
                                   Ev("disconnect", "client", 0)>>
                    ELSE <<>>),
     escaped   |-> "none",
     connected |-> FALSE]

\* The except clauses and the finally clause of FastTelegramScraper.run: only
\* ValueError and KeyboardInterrupt are caught; the finally clause disconnects
\* without a test.
FastHandlers(exc, conn) ==
    [events    |-> (CASE exc = "ValueError" -> <<Ev("print", "numeric_value", 0)>>
                      [] exc = "KeyboardInterrupt" -> <<Ev("print", "interrupted", 0)>>
                      [] OTHER -> <<>>) \o
                   <<Ev("print", "disconnecting", 0), Ev("disconnect", "client", 0)>>,
     escaped   |-> IF exc \in {"none", "ValueError", "KeyboardInterrupt"}
                   THEN "none" ELSE exc,
     connected |-> FALSE]

\* The import of the module and the construction of the scraper.  The fast
\* scraper reads the environment when it is imported and exits with status 1
\* if a credential is missing; main.py constructs its client in any case.
Launch ==
    /\ run_pc = "start"
    /\ \E e \in EntryPoints, a \in Credentials, h \in Credentials, p \in Credentials :
         /\ entry' = e /\ api_id' = a /\ api_hash' = h /\ phone' = p
         /\ IF e = "fast" /\ MissingCredential(a, h, p)
            THEN /\ run_pc' = "exited"
                 /\ run_log' = <<Ev("print", "missing_credentials", 0),
                                 Ev("sys.exit", "import", 1)>>
            ELSE /\ run_pc' = "constructed"
                 /\ run_log' = <<>>
    /\ UNCHANGED <<connected, menu_choice, operation, escaped>>
    /\ UNCHANGED nonRunVars

\* The connection step of run().  In TelegramScraper.run it is inside the try
\* statement; in FastTelegramScraper.run it precedes it, so what it raises
\* leaves run() at once.
Connect ==
    /\ run_pc = "constructed"
    /\ \E o \in ConnectOutcomes :
         LET c == IF entry = "main" THEN connect_client(api_id, api_hash, phone, o)
                  ELSE connect(o)
             f == MainHandlers(c.raises, c.connected)
         IN IF c.raises = "none"
            THEN /\ run_pc' = "connected"
                 /\ run_log' = run_log \o c.events \o <<Ev("print", "connected", 0)>>
                 /\ connected' = c.connected
                 /\ escaped' = escaped
            ELSE IF entry = "main"
            THEN /\ run_pc' = "returned"
                 /\ run_log' = run_log \o c.events \o f.events
                 /\ connected' = f.connected
                 /\ escaped' = f.escaped
            ELSE /\ run_pc' = "returned"
                 /\ run_log' = run_log \o c.events
                 /\ connected' = c.connected
                 /\ escaped' = c.raises
    /\ UNCHANGED <<entry, api_id, api_hash, phone, menu_choice, operation>>
    /\ UNCHANGED nonRunVars

\* What the user can type at the menu prompt.
MenuInputs == {"1", "2", "3", "4", "5", "x", ""}

\* The menu prompt: input() returns a line, or the user interrupts it.  The
\* prompt of TelegramScraper.run is inside the try statement, the prompt of
\* FastTelegramScraper.run is not.
ChooseMenu ==
    /\ run_pc = "connected"
    /\ \/ /\ menu_choice' \in MenuInputs
          /\ run_pc' = "chosen"
          /\ run_log' = run_log \o <<Ev("input", "menu", 0)>>
          /\ UNCHANGED <<connected, escaped>>
       \/ /\ menu_choice' = menu_choice
          /\ run_pc' = "returned"
          /\ LET f == MainHandlers("KeyboardInterrupt", connected)
             IN IF entry = "main"
                THEN /\ run_log' = run_log \o <<Ev("KeyboardInterrupt", "input", 0)>> \o f.events
                     /\ connected' = f.connected
                     /\ escaped' = f.escaped
                ELSE /\ run_log' = run_log \o <<Ev("KeyboardInterrupt", "input", 0)>>
                     /\ connected' = connected
                     /\ escaped' = "KeyboardInterrupt"
    /\ UNCHANGED <<entry, api_id, api_hash, phone, operation>>
    /\ UNCHANGED nonRunVars

\* The operation the menu announces for a choice.
Announced(c) ==
    CASE c = "1" -> "list_users_in_group"
      [] c = "2" -> "add_users_to_group"
      [] c = "3" -> "display_csv"
      [] c = "4" -> "fetch_group_messages"
      [] OTHER -> "none"

\* The methods the two classes define.
Methods(e) ==
    IF e = "main"
    THEN {"generate_filename", "connect_client", "get_user_fast_info",
          "get_user_detailed_info", "get_groups", "display_groups",
          "get_user_group_choice", "get_processing_mode", "get_period_input",
          "find_message_keywords", "fetch_group_messages", "process_csv_to_json",
          "filter_users_with_gaming_keywords", "validate_user_with_ai",
          "get_google_oauth2_credentials", "get_google_sheets_service",
          "create_new_spreadsheet", "get_google_sheets_choice",
          "prepare_sheets_data", "upload_to_google_sheets",
          "process_and_validate_data", "upload_existing_data_to_sheets"}
    ELSE {"ensure_data_folder", "generate_filename", "connect",
          "get_user_fast_info", "get_user_detailed_info", "list_users_in_group",
          "fetch_group_messages", "add_users_to_group", "display_csv", "run"}

\* How an operation that was started can end: it returns, or it raises.
OperationOutcomes == {"ok", "ValueError", "KeyboardInterrupt", "Exception"}

\* int(choice) of FastTelegramScraper.run
IsInt(c) == c \in {"1", "2", "3", "4", "5"}

\* The if/elif chain of run(): the operation started for a choice, with what
\* the chain raises before an operation starts.  TelegramScraper.run looks
\* the method up on TelegramTools, which raises AttributeError when the class
\* does not define it; FastTelegramScraper.run converts the choice with int().
Dispatch(e, c) ==
    IF e = "fast" /\ ~IsInt(c)
    THEN [operation |-> "none", raises |-> "ValueError", events |-> <<>>]
    ELSE IF Announced(c) = "none"
    THEN [operation |-> "none", raises |-> "none",
          events |-> <<Ev("print", "invalid_choice", 0)>>]
    ELSE IF Announced(c) \notin Methods(e)
    THEN [operation |-> "none", raises |-> "AttributeError", events |-> <<>>]
    ELSE [operation |-> Announced(c), raises |-> "none",
          events |-> <<Ev("call", Announced(c), 0)>>]

\* From the choice to the end of run(): the dispatch, the operation, the
\* except clauses and the finally clause.
RunChoice ==
    /\ run_pc = "chosen"
    /\ \E o \in OperationOutcomes :
         LET d   == Dispatch(entry, menu_choice)
             exc == IF d.operation = "none" THEN d.raises
                    ELSE IF o = "ok" THEN "none" ELSE o
             ev  == d.events \o
                    (IF d.operation # "none" /\ o # "ok"
                     THEN <<Ev(o, d.operation, 0)>>
                     ELSE IF d.raises # "none" THEN <<Ev(d.raises, "dispatch", 0)>>
                     ELSE <<>>)
             f   == IF entry = "main" THEN MainHandlers(exc, connected)
                    ELSE FastHandlers(exc, connected)
         IN /\ (d.operation = "none" => o = "ok")
            /\ operation' = d.operation
            /\ run_log' = run_log \o ev \o f.events
            /\ connected' = f.connected
            /\ escaped' = f.escaped
    /\ run_pc' = "returned"
    /\ UNCHANGED <<entry, api_id, api_hash, phone, menu_choice>>
    /\ UNCHANGED nonRunVars

NextRun ==
    \/ Launch
    \/ Connect
    \/ ChooseMenu
    \/ RunChoice

SpecRun == Init /\ [][NextRun]_vars

\* ------------------------- the validation loop and the upload of a data file
\* An aggregate as far as the upload is concerned: its key and its entry
\* "ai_validated" ("absent" while the aggregate has none).
Aggregate(k) == [id |-> k, ai_validated |-> "absent"]

\* filtered_users of process_and_validate_data: not empty at the loop.
FilteredUsers == {[k \in 1..len |-> Aggregate(k)] : len \in 1..MaxCandidates}

\* The files upload_existing_data_to_sheets offers, by the keyword in their
\* name.  process_and_validate_data writes the filtered users before the
\* validation and the validated users after it.
FileKinds == {"filtered-users", "validated-users", "users-data"}
FileData(kind, data) ==
    [k \in DOMAIN data |->
        IF kind = "validated-users" THEN [data[k] EXCEPT !.ai_validated = "True"]
        ELSE data[k]]

\* bool(value) of Python
Truthy(v) ==
    CASE v.type = "bool"     -> v.val = "True"
      [] v.type = "str"      -> v.val # ""
      [] v.type = "int"      -> v.val # "0"
      [] v.type = "NoneType" -> FALSE

\* The values validate_user_with_ai can return with a key configured.
Verdicts == {HandleReply(r) : r \in Responses}

\* "if is_valid:" and the two assignments under it
Validated(validated, user_data, v) ==
    IF Truthy(v)
    THEN Append(validated, [user_data EXCEPT !.ai_validated = "True"])
    ELSE validated

\* process_and_validate_data up to the loop: without a key the operation
\* returns after the filtered users are saved.  upload_existing_data_to_sheets
\* up to the loaded file: it returns at once without the Google libraries.
ValStart ==
    /\ val_pc = "input"
    /\ \/ /\ val_operation' = "process_and_validate_data"
          /\ candidates' \in FilteredUsers
          /\ \E key \in ApiKeys :
               val_pc' = IF key = "" THEN "done" ELSE "validating"
       \/ /\ val_operation' = "upload_existing_data_to_sheets"
          /\ \E available \in BOOLEAN, kind \in FileKinds, data \in FilteredUsers :
               IF available
               THEN candidates' = FileData(kind, data) /\ val_pc' = "loaded"
               ELSE candidates' = candidates /\ val_pc' = "done"
    /\ UNCHANGED <<verdicts, val_validated, handed>>
    /\ UNCHANGED nonValVars

\* One iteration of the validation loop.
ValidateUser ==
    /\ val_pc = "validating"
    /\ LET k == Len(verdicts) + 1 IN
       \E v \in Verdicts :
         /\ verdicts' = Append(verdicts, v)
         /\ val_validated' = Validated(val_validated, candidates[k], v)
         /\ val_pc' = IF k = Len(candidates) THEN "validated" ELSE "validating"
    /\ UNCHANGED <<val_operation, candidates, handed>>
    /\ UNCHANGED nonValVars

\* After the loop: validated users are saved and, with the Google libraries
\* present, given to upload_to_google_sheets.
UploadValidated ==
    /\ val_pc = "validated"
    /\ \E available \in BOOLEAN :
         handed' = IF val_validated # <<>> /\ available THEN val_validated ELSE handed
    /\ val_pc' = "done"
    /\ UNCHANGED <<val_operation, candidates, verdicts, val_validated>>
    /\ UNCHANGED nonValVars

\* upload_existing_data_to_sheets after the file is loaded: the whole mapping
\* is given to upload_to_google_sheets if the user confirms.
UploadExisting ==
    /\ val_pc = "loaded"
    /\ \E confirm \in {"y", "Y", "n", ""} :
         handed' = IF confirm \in {"y", "Y"} THEN candidates ELSE handed
    /\ val_pc' = "done"
    /\ UNCHANGED <<val_operation, candidates, verdicts, val_validated>>
    /\ UNCHANGED nonValVars

NextVal ==
    \/ ValStart
    \/ ValidateUser
    \/ UploadValidated
    \/ UploadExisting

SpecVal == Init /\ [][NextVal]_vars
\* ================================================================ properties
Count(lg, e, w) == Cardinality({k \in DOMAIN lg : lg[k].ev = e /\ lg[k].who = w})

CountEv(lg, e) == Cardinality({k \in DOMAIN lg : lg[k].ev = e})

IsBotOrChannelOrChat(u) ==
    Bot(u) \/ ClassName(u) \in {"Channel", "ChannelForbidden", "Chat", "ChatForbidden", "ChatEmpty"}

\* The field of a row that stands under the column name of the header.
Col(row, name) == row[CHOOSE k \in DOMAIN Header : Header[k] = name]

SendersOf(msgs) == {msgs[k].sender : k \in DOMAIN msgs} \ {NoSender}

\* C1: over a source in non-increasing date order, the ingestion loop has
\* collected exactly the delivered messages with start_date <= date <=
\* end_date, in order (a message newer than end_date is skipped and the loop
\* goes on), and the first message dated before start_date is the last
\* element consumed from the source: the loop is left with it.
C1_IngestionWindow ==
    /\ messages = SelectSeq(delivered, LAMBDA m : start_date <= m.date /\ m.date <= end_date)
    /\ \A k \in DOMAIN delivered :
         delivered[k].date < start_date => k = Len(delivered) /\ pc # "fetching"

C1_Witness ==
    /\ pc \in {"writing", "done"}
    /\ Len(delivered) = 4
    /\ delivered[1].date > end_date
    /\ delivered[2].date = end_date
    /\ delivered[3].date = start_date
    /\ delivered[4].date < start_date
    /\ messages = <<delivered[2], delivered[3]>>

\* C2: when the export completes, the file is closed and holds the header
\* followed by one row per collected message, the k-th row being the row of
\* the k-th collected message, cached sender or not.
C2_SinkOrder ==
    pc = "done" =>
      /\ file = "closed"
      /\ Len(sink) = Len(messages) + 1
      /\ sink[1] = Header
      /\ \A k \in DOMAIN messages :
           /\ Col(sink[k + 1], "message_id") = messages[k].id
           /\ Col(sink[k + 1], "date") = messages[k].date
           /\ Col(sink[k + 1], "sender_id") =
                 (IF messages[k].sender = NoSender THEN "" ELSE messages[k].sender)

C2_Witness ==
    /\ pc = "done"
    /\ Len(messages) = 2
    /\ messages[1].sender = "u1"
    /\ messages[2].sender = "u1"
    /\ Len(sink) = 3

\* C3: in every step of a run each sender has been resolved at most once and
\* has caused at most one GetFullUserRequest, also when that request failed;
\* a message whose sender is in users_cache causes no remote call at all.
C3_AtMostOneResolution ==
    [][ /\ \A u \in Senders :
             /\ Count(log', "resolve", u) <= 1
             /\ Count(log', "GetFullUserRequest", u) <= 1
        /\ (pc = "writing" /\ messages[i + 1].sender \in DOMAIN users_cache)
             => log' = log ]_vars

C3_Witness ==
    /\ i = 2
    /\ messages[1].sender = "u1"
    /\ messages[2].sender = "u1"
    /\ ~fast_mode
    /\ Count(log, "GetFullUserRequest", "u1") = 1
    /\ CountEv(log, "Exception") = 1

\* C4: in detailed mode no GetFullUserRequest is ever issued for a bot or for
\* a channel or chat object, and when the run is complete exactly one has
\* been issued for every other sender of a collected message.
C4_DetailedOnePerUser ==
    ~fast_mode =>
      \A u \in Senders :
        /\ IsBotOrChannelOrChat(u) => Count(log, "GetFullUserRequest", u) = 0
        /\ pc = "done" =>
             Count(log, "GetFullUserRequest", u) =
               (IF u \in SendersOf(messages) /\ ~IsBotOrChannelOrChat(u) THEN 1 ELSE 0)

C4_Witness ==
    /\ pc = "done"
    /\ ~fast_mode
    /\ SendersOf(messages) = {"u1", "chat"}
    /\ Count(log, "GetFullUserRequest", "u1") = 1
    /\ Count(log, "resolve", "chat") = 1

\* C5: in fast mode the log never holds a GetFullUserRequest, and the dialog
\* listing is the only remote enrichment call, issued at most once.
C5_FastNoProfileRequest ==
    fast_mode =>
      /\ CountEv(log, "GetFullUserRequest") = 0
      /\ CountEv(log, "get_dialogs") <= 1

C5_Witness ==
    /\ pc = "done"
    /\ fast_mode
    /\ SendersOf(messages) = {"u1", "u2"}
    /\ CountEv(log, "resolve") = 2
    /\ CountEv(log, "get_dialogs") = 1

StreamFailed ==
    \E k \in DOMAIN log :
       log[k].who = "iter_messages" /\ log[k].ev \in {"Exception", "FloodWaitError"}

\* C6: once iter_messages has raised, the failure has been printed, the
\* function has returned, no file exists, nothing was written and no sender
\* was resolved, whatever had been collected.
C6_StreamErrorDiscards ==
    StreamFailed =>
      /\ pc = "failed"
      /\ log[Len(log)] = Ev("print", "iter_messages", 0)
      /\ file = "absent"
      /\ sink = <<>>
      /\ DOMAIN users_cache = {}
      /\ CountEv(log, "resolve") = 0

C6_Witness ==
    /\ pc = "failed"
    /\ Len(messages) = 2

NewEvents == SubSeq(log', Len(log) + 1, Len(log'))

\* C7: an iteration of the write loop always writes the row of its message
\* and moves on to the next message; when get_dialogs raised in it the row
\* has no common groups, and when GetFullUserRequest raised in it the row has
\* the empty bio and the common groups of the fast lookup.
C7_EnrichmentFailureDegrades ==
    [][ pc = "writing" =>
          /\ i' = i + 1
          /\ Len(sink') = Len(sink) + 1
          /\ Col(sink'[Len(sink')], "message_id") = messages[i + 1].id
          /\ pc' = (IF i + 1 < Len(messages) THEN "writing" ELSE "done")
          /\ (\E k \in DOMAIN NewEvents :
                 NewEvents[k].who = "get_dialogs" /\ NewEvents[k].ev = "Exception")
               => /\ Col(sink'[Len(sink')], "sender_common_groups") = <<>>
                  /\ common_groups_cache' = ListCache(<<>>)
          /\ (\E k \in DOMAIN NewEvents :
                 /\ NewEvents[k].who = "GetFullUserRequest"
                 /\ NewEvents[k].ev \in {"Exception", "FloodWaitError"})
               => /\ Col(sink'[Len(sink')], "sender_bio") = ""
                  /\ Col(sink'[Len(sink')], "sender_common_groups") =
                        Take(common_groups_cache'.titles, max_common_groups) ]_vars

C7_Witness ==
    /\ pc = "done"
    /\ Len(messages) = 2
    /\ \E k \in DOMAIN log : log[k] = Ev("Exception", "get_dialogs", 0)
    /\ \E k \in DOMAIN log : log[k] = Ev("Exception", "GetFullUserRequest", 0)
    /\ Col(sink[2], "sender_id") = "u1"
    /\ Col(sink[2], "sender_bio") = ""

\* C8: every flood-wait signal met while streaming or looking up a profile
\* is followed at once by a sleep of the signalled number of seconds, and the
\* fetch has not failed.
C8_FloodWaitSleepsAndContinues ==
    \A k \in DOMAIN log :
       log[k].ev = "FloodWaitError" =>
         /\ pc # "failed"
         /\ k < Len(log)
         /\ log[k + 1].ev = "sleep"
         /\ log[k + 1].arg = log[k].arg * 1000

\* C9: in the bulk add every flood-wait met for a target is followed by a
\* sleep of the signalled number of seconds and then by a new attempt on the
\* same target: the loop neither ends nor moves to another target.
C9_FloodWaitRetriesSameTarget ==
    \A k \in DOMAIN add_log :
       add_log[k].ev = "FloodWaitError" =>
         /\ k < Len(add_log)
         /\ add_log[k + 1] = Ev("sleep", add_log[k].who, add_log[k].arg * 1000)
         /\ k + 2 <= Len(add_log) => add_log[k + 2].who = add_log[k].who
         /\ ~(add_pc = "done" /\ k + 1 = Len(add_log))

\* The targets the invite loop has reached, in order: the first remote call
\* of an iteration is get_input_entity (method 1) or the invite (method 2).
Attempted ==
    LET first == IF add_method = 1 THEN "get_input_entity" ELSE "InviteToChannelRequest"
        calls == SelectSeq(add_log, LAMBDA e : e.ev = first)
    IN [k \in DOMAIN calls |-> calls[k].who]

\* C10: a peer-flood error is the last thing the bulk add does; a
\* privacy-restricted or a generic error on a target that is not the last
\* leaves the loop running, and a bulk add that ends without a peer-flood
\* error has reached every target, in order.
C10_PeerFloodAbortsOthersSkip ==
    /\ \A k \in DOMAIN add_log :
         /\ add_log[k].ev = "PeerFloodError" => k = Len(add_log) /\ add_pc = "done"
         /\ (/\ add_log[k].ev \in {"UserPrivacyRestrictedError", "Exception"}
             /\ k = Len(add_log)
             /\ add_log[k].who # users[Len(users)]) => add_pc = "adding"
    /\ (add_pc = "done" /\ add_method \in {1, 2} /\ CountEv(add_log, "PeerFloodError") = 0)
         => Attempted = users

C10_Witness ==
    /\ add_pc = "done"
    /\ Len(users) = 3
    /\ Count(add_log, "UserPrivacyRestrictedError", "a") = 1
    /\ Count(add_log, "Exception", "b") = 1
    /\ Count(add_log, "InviteToChannelRequest", "c") = 1
    /\ CountEv(add_log, "PeerFloodError") = 0

\* The rows of one sender, in input order.
SenderRows(id) == SelectSeq(records, LAMBDA r : r.sender_id = id)

\* process_csv_to_json has read the file and returned.
Aggregated == agg_pc \in {"aggregated", "filtered", "returned"} /\ csv_error = "none"

\* C11: the aggregation returns one aggregate per distinct non-empty
\* sender_id of the rows and none for the empty sender_id; the messages of an
\* aggregate are the sub-records of the rows of that sender, one per row, in
\* input order.
C11_OneAggregatePerSender ==
    Aggregated =>
      /\ DOMAIN users_data = {records[k].sender_id : k \in DOMAIN records} \ {""}
      /\ \A id \in DOMAIN users_data :
           /\ users_data[id].sender_id = id
           /\ Len(users_data[id].messages) = Len(SenderRows(id))
           /\ \A k \in DOMAIN SenderRows(id) :
                /\ users_data[id].messages[k].message_id = SenderRows(id)[k].message_id
                /\ users_data[id].messages[k].message_gaming_keywords =
                      SenderRows(id)[k].message_gaming_keywords

C11_Witness ==
    /\ agg_pc = "aggregated"
    /\ Len(records) = 3
    /\ records[1].sender_id = "2"
    /\ records[2].sender_id = ""
    /\ records[3].sender_id = "2"
    /\ Len(users_data["2"].messages) = 2

\* C12 as stated: every sender field of an aggregate, the username included,
\* is the value of the first row of that sender.
C12_SenderFieldsOfFirstRow ==
    Aggregated =>
      \A id \in DOMAIN users_data :
        /\ users_data[id].sender_username = SenderRows(id)[1].sender_username
        /\ users_data[id].sender_name = SenderRows(id)[1].sender_name
        /\ users_data[id].sender_bio = SenderRows(id)[1].sender_bio
        /\ users_data[id].sender_common_groups = SenderRows(id)[1].sender_common_groups
        /\ users_data[id].group = SenderRows(id)[1].group
        /\ users_data[id].group_id = SenderRows(id)[1].group_id

\* C12: name, bio, common groups, group and group id of an aggregate are the
\* values of the first row of that sender, and its username is the username
\* of that row with "@" put in front when it is non-empty and does not start
\* with "@"; later rows of the sender change none of these.
C12_SenderFieldsOfFirstRowPrefixed ==
    Aggregated =>
      \A id \in DOMAIN users_data :
        LET first == SenderRows(id)[1] IN
        /\ users_data[id].sender_username =
              (IF first.sender_username = <<>> THEN <<>>
               ELSE IF first.sender_username[1] = At THEN first.sender_username
               ELSE <<At>> \o first.sender_username)
        /\ users_data[id].sender_name = first.sender_name
        /\ users_data[id].sender_bio = first.sender_bio
        /\ users_data[id].sender_common_groups = first.sender_common_groups
        /\ users_data[id].group = first.group
        /\ users_data[id].group_id = first.group_id

C12_Witness ==
    /\ agg_pc = "aggregated"
    /\ Len(SenderRows("1")) = 2
    /\ SenderRows("1")[1].sender_username = <<98>>
    /\ SenderRows("1")[2].sender_username = <<At, 99>>
    /\ users_data["1"].sender_username = <<At, 98>>
    /\ users_data["1"].sender_name = "n1"

\* C13: the filter returns, under the same keys and with the same values, the
\* aggregates that have a message with a non-empty keyword summary, and no
\* other.
C13_FilterKeepsKeywordUsers ==
    agg_pc = "filtered" =>
      /\ DOMAIN filtered_users =
            {id \in DOMAIN users_data :
               \E k \in DOMAIN users_data[id].messages :
                  users_data[id].messages[k].message_gaming_keywords # <<>>}
      /\ \A id \in DOMAIN filtered_users : filtered_users[id] = users_data[id]

C13_Witness ==
    /\ agg_pc = "filtered"
    /\ DOMAIN users_data = {"1", "2"}
    /\ DOMAIN filtered_users = {"2"}
    /\ Len(users_data["2"].messages) = 2
    /\ users_data["2"].messages[1].message_gaming_keywords = <<>>
    /\ users_data["2"].messages[2].message_gaming_keywords # <<>>

\* C14: the aggregation leaves the rows it read as they were, the filter
\* leaves the rows and the mapping it was given as they were, and neither
\* adds a remote call to a log.
C14_AggregationAndFilterPure ==
    [][ /\ agg_pc = "read" => records' = records
        /\ agg_pc = "aggregated" => users_data' = users_data /\ records' = records
        /\ agg_pc \in {"read", "aggregated"} => log' = log /\ add_log' = add_log ]_vars

C14_Witness ==
    /\ agg_pc = "filtered"
    /\ Len(records) = 3
    /\ DOMAIN users_data = {"1", "2"}
    /\ DOMAIN filtered_users = {"1"}

\* The reply of the POST is a 200 whose text, code fence removed, decodes to
\* a JSON object with the entry "valid" equal to the boolean true.
ReplyIsValidTrue ==
    /\ openrouter_api_key # ""
    /\ response.kind = "response"
    /\ response.status_code = 200
    /\ response.has_content
    /\ \E t \in {<<"{\"valid\": true}">>} :
          response.content \in
             {t, <<" ">> \o t \o <<"\n">>,
              <<Fence, "json", "\n">> \o t \o <<"\n", Fence>>,
              <<Fence, "\n">> \o t \o <<"\n", Fence>>,
              <<Fence, "json", "\n">> \o t}

\* C15: the validation call returns the boolean true when the reply is a 200
\* carrying a JSON object whose "valid" is the boolean true, and the boolean
\* false in every other case.
C15_ValidOnlyOnBooleanTrue ==
    ai_pc = "returned" =>
      is_valid = (IF ReplyIsValidTrue THEN PyTrue ELSE PyFalse)

\* C16: for a count above zero the range ends at the current time, starts
\* before it ends, and spans count days for days, 7 * count days for weeks and
\* 30 * count days for months.
C16_WindowSpan ==
    (win_pc = "computed" /\ win_quantity > 0) =>
      /\ win_end_date = win_now
      /\ win_start_date < win_end_date
      /\ win_period_type \in {"days", "weeks", "months"}
      /\ win_period_type = "days" => win_end_date - win_start_date = win_quantity
      /\ win_period_type = "weeks" => win_end_date - win_start_date = 7 * win_quantity
      /\ win_period_type = "months" => win_end_date - win_start_date = 30 * win_quantity

C16_Witness ==
    /\ win_pc = "computed"
    /\ win_period_type = "months"
    /\ win_quantity = 3
    /\ win_end_date - win_start_date = 90

\* The term kw stands at some position of the text t.
Occurs(kw, t) ==
    \E p \in DOMAIN t :
       \A j \in DOMAIN kw : p + j - 1 <= Len(t) /\ t[p + j - 1] = kw[j]

\* The terms of a summary: the pieces between the separators ", ".
RECURSIVE SplitSummary(_, _)
SplitSummary(s, cur) ==
    IF s = <<>> THEN (IF cur = <<>> THEN <<>> ELSE <<cur>>)
    ELSE IF Len(s) >= 2 /\ s[1] = 44 /\ s[2] = 32
    THEN <<cur>> \o SplitSummary(SubSeq(s, 3, Len(s)), <<>>)
    ELSE SplitSummary(Tail(s), Append(cur, s[1]))

Casino == <<99, 97, 115, 105, 110, 111>>
Games  == <<103, 97, 109, 101, 115>>

\* C17: the summary lists exactly the lexicon terms that stand in the
\* lower-cased text, each once and in lexicon order, whatever the case of the
\* letters given; the empty text gives the empty summary and "I love CASINO
\* games" gives a summary with casino and games.
C17_MatcherFindsLexiconTerms ==
    kw_pc = "matched" =>
      LET terms == SplitSummary(keyword_summary, <<>>)
          lowered == [k \in DOMAIN kw_text |->
                        IF kw_text[k] \in 65..90 \cup 1040..1071
                        THEN kw_text[k] + 32 ELSE kw_text[k]]
      IN /\ terms = found_keywords
         /\ \A k \in DOMAIN KEYWORDS :
              Occurs(KEYWORDS[k], lowered) <=> \E j \in DOMAIN terms : terms[j] = KEYWORDS[k]
         /\ \A j \in DOMAIN terms : \E k \in DOMAIN KEYWORDS : terms[j] = KEYWORDS[k]
         /\ \A j1, j2 \in DOMAIN terms :
              j1 < j2 => \E k1, k2 \in DOMAIN KEYWORDS :
                            k1 < k2 /\ KEYWORDS[k1] = terms[j1] /\ KEYWORDS[k2] = terms[j2]
         /\ kw_text = <<>> => keyword_summary = <<>>
         /\ kw_text = SampleText =>
              /\ \E j \in DOMAIN terms : terms[j] = Casino
              /\ \E j \in DOMAIN terms : terms[j] = Games

\* The text "GEO" + "bet" + "ting": geo stands first in the text and last in
\* the summary.
C17_Witness ==
    /\ kw_pc = "matched"
    /\ kw_text = <<71, 69, 79, 98, 101, 116, 116, 105, 110, 103>>
    /\ Len(found_keywords) = 3
    /\ found_keywords[3] = <<103, 101, 111>>

\* C18: the message_text of the row of a message is the text of the message
\* with every line feed and every carriage return replaced by one space and
\* every other character as it was (the empty text for a message without
\* text), so it holds no line feed and no carriage return.
C18_NoLineBreaksInText ==
    \A k \in DOMAIN messages :
       k + 1 <= Len(sink) =>
         LET body == messages[k].message
             text == Col(sink[k + 1], "message_text")
         IN /\ \A j \in DOMAIN text : text[j] \notin {10, 13}
            /\ text = (IF body = NoneText THEN <<>>
                       ELSE [j \in DOMAIN body |->
                               IF body[j] \in {10, 13} THEN 32 ELSE body[j]])

\* C19: every row after the header has the eleven fields of the header, each
\* under its column and none of them None; the row of a message without a
\* sender has the empty sender fields, a sender without a username or
\* without a name gives the empty field, and a message without text gives
\* the empty text.
C19_RowHasAllHeaderFields ==
    \A k \in DOMAIN messages :
       k + 1 <= Len(sink) =>
         LET row == sink[k + 1]
             m   == messages[k]
         IN /\ Len(row) = 11
            /\ Len(row) = Len(Header)
            /\ row[1] = m.id /\ row[2] = m.date
            /\ row[7] = target_group.title /\ row[8] = target_group.id
            /\ row[3] # None
            /\ row[9] # None
            /\ \A c \in {4, 5, 6, 10} : row[c] # NoneText
            /\ m.sender = NoSender =>
                 /\ Col(row, "sender_id") = ""
                 /\ Col(row, "sender_username") = <<>>
                 /\ Col(row, "sender_name") = <<>>
                 /\ Col(row, "sender_bio") = ""
                 /\ Col(row, "sender_common_groups") = <<>>
            /\ (m.sender # NoSender /\ Username(m.sender) = NoneText) =>
                 Col(row, "sender_username") = <<>>
            /\ (m.sender # NoSender /\ FirstName(m.sender) = NoneText
                                    /\ LastName(m.sender) = NoneText) =>
                 Col(row, "sender_name") = <<>>
            /\ m.message = NoneText =>
                 /\ Col(row, "message_text") = <<>>
                 /\ Col(row, "message_gaming_keywords") = <<>>

C19_Witness ==
    /\ pc = "done"
    /\ Len(sink) = 3
    /\ messages[1].sender = NoSender
    /\ messages[1].message = NoneText
    /\ messages[2].sender = "chat"
    /\ Col(sink[3], "sender_username") = <<>>
    /\ Col(sink[3], "sender_name") = <<>>
    /\ Col(sink[3], "message_gaming_keywords") = <<98, 101, 116>>

\* C20: after a probe that counted k > 0 rows the update carries the user
\* rows only and starts at row k + 1, and when it succeeds the first k rows
\* of the worksheet are what they were and the user rows follow them; after
\* a probe that counted no row or raised an HttpError the update carries the
\* headers and the user rows and starts at row 1.
C20_AppendOrWriteWithHeaders ==
    [][ /\ (up_pc = "probing" /\ up_pc' = "updating") =>
             IF existing_rows' > 0
             THEN /\ existing_rows' = Len(worksheet)
                  /\ start_row' = existing_rows' + 1
                  /\ Len(upload_data') = Len(validated_users)
                  /\ \A k \in DOMAIN upload_data' :
                       upload_data'[k] = [kind |-> "user", sender_id |-> validated_users[k]]
             ELSE /\ start_row' = 1
                  /\ Len(upload_data') = Len(validated_users) + 1
                  /\ upload_data'[1].kind = "headers"
                  /\ \A k \in DOMAIN validated_users :
                       upload_data'[k + 1] = [kind |-> "user", sender_id |-> validated_users[k]]
        /\ (up_pc = "updating" /\ uploaded' = "True") =>
             /\ \A r \in 1..(start_row - 1) : worksheet'[r] = worksheet[r]
             /\ existing_rows > 0 => Len(worksheet') = Len(worksheet) + Len(validated_users)
             /\ \A k \in DOMAIN upload_data :
                  worksheet'[start_row + k - 1] = upload_data[k] ]_vars

C20_Witness ==
    /\ up_pc = "returned"
    /\ uploaded = "True"
    /\ existing_rows = 3
    /\ start_row = 4
    /\ Len(validated_users) = 2
    /\ Len(worksheet) = 5
    /\ worksheet[1].kind = "headers"
    /\ worksheet[3].sender_id = "o2"
    /\ worksheet[4].sender_id = "1"
    /\ worksheet[5].sender_id = "2"

\* ---------------------------------------------------------------- C21
ConnectionCalls == {"connect", "is_user_authorized", "send_code_request", "sign_in"}

\* C21: when the API id, the API hash or the phone is missing or empty, the
\* error is reported and the run ends without a connection attempt: no
\* connect, authorization check, code request or sign-in is issued, the menu
\* is never reached, and a run that has ended has printed the error.
C21_NoConnectionWithoutCredentials ==
    (run_pc # "start" /\ MissingCredential(api_id, api_hash, phone)) =>
        /\ \A k \in DOMAIN run_log : run_log[k].ev \notin ConnectionCalls
        /\ run_pc \in {"constructed", "exited", "returned"}
        /\ ~connected
        /\ run_pc \in {"exited", "returned"} =>
              \E k \in DOMAIN run_log :
                  /\ run_log[k].ev = "print"
                  /\ run_log[k].who \in {"configuration_error", "missing_credentials"}

\* connect_client has raised for a missing phone and run() has returned.
C21_Witness ==
    /\ run_pc = "returned"
    /\ entry = "main"
    /\ api_id = "set" /\ api_hash = "set" /\ phone = ""
    /\ run_log = <<Ev("print", "configuration_error", 0), Ev("print", "numeric_value", 0)>>

\* ---------------------------------------------------------------- C22
\* C22: only validated results reach the spreadsheet: every aggregate given
\* to upload_to_google_sheets carries ai_validated = true and, when it comes
\* from the validation loop, is one for which the classifier returned the
\* boolean true.
C22_OnlyValidatedUploaded ==
    \A k \in DOMAIN handed :
        /\ handed[k].ai_validated = "True"
        /\ val_operation = "process_and_validate_data" =>
              \E j \in DOMAIN verdicts :
                  /\ candidates[j].id = handed[k].id
                  /\ verdicts[j] = PyTrue

\* ---------------------------------------------------------------- C23
\* find_message_keywords of the text of every body the source attaches
KeywordsOfBody ==
    [body \in {Bodies[k] : k \in DOMAIN Bodies} |-> find_message_keywords(MessageText(body))]

\* C23: the iteration of the write loop for a message with no sender makes no
\* remote call, adds nothing to the sender cache, and still writes one row
\* whose sender_id, sender_username, sender_name, sender_bio and
\* sender_common_groups are empty and whose message_gaming_keywords is
\* find_message_keywords of the message text.
C23_NoSenderRow ==
    [][(pc = "writing" /\ i' = i + 1 /\ messages[i + 1].sender = NoSender) =>
          /\ log' = log
          /\ users_cache' = users_cache
          /\ common_groups_cache' = common_groups_cache
          /\ Len(sink') = Len(sink) + 1
          /\ SubSeq(sink', 1, Len(sink)) = sink
          /\ LET row == sink'[Len(sink')] IN
               /\ Col(row, "message_id") = messages[i + 1].id
               /\ Col(row, "sender_id") = ""
               /\ Col(row, "sender_username") = <<>>
               /\ Col(row, "sender_name") = <<>>
               /\ Col(row, "sender_bio") = ""
               /\ Col(row, "sender_common_groups") = <<>>
               /\ Col(row, "message_gaming_keywords") = KeywordsOfBody[messages[i + 1].message]
      ]_vars

\* The export is done, and the row of a message without a sender carries the
\* keyword found in its text while a sender was resolved for another row.
C23_Witness ==
    /\ pc = "done"
    /\ Len(sink) = 3
    /\ Col(sink[2], "sender_id") = "u1"
    /\ Col(sink[3], "sender_id") = ""
    /\ Col(sink[3], "sender_bio") = ""
    /\ Col(sink[3], "message_gaming_keywords") = <<98, 101, 116>>
    /\ DOMAIN users_cache = {"u1"}

\* ---------------------------------------------------------------- C24
\* C24: in detailed mode a wait of api_delay follows every GetFullUserRequest
\* before the next one, and a wait follows only a lookup that issued a
\* GetFullUserRequest: a sender that is a bot or a channel or chat object
\* causes none, and fast mode has none.
C24_ThrottleOnlyAfterProfileCall ==
    /\ fast_mode => CountEv(log, "sleep") = 0
    /\ \A k \in DOMAIN log :
         log[k].ev = "GetFullUserRequest" =>
            \E j \in DOMAIN log :
               /\ j > k
               /\ log[j] = Ev("sleep", log[k].who, api_delay_ms)
               /\ \A m \in (k + 1)..(j - 1) : log[m].ev # "GetFullUserRequest"
    /\ \A j \in DOMAIN log :
         log[j].ev = "sleep" =>
            /\ ~IsBotOrChannelOrChat(log[j].who)
            /\ \E k \in DOMAIN log :
                  /\ k < j
                  /\ log[k] = Ev("GetFullUserRequest", log[j].who, 0)

\* ---------------------------------------------------------------- C25
\* C25: the dialog listing is issued at most once per scraper instance; the
\* common-groups cache is unset exactly as long as no listing was attempted,
\* and after the attempt it holds the fetched titles, or the empty list if
\* the listing raised; the failure does not leave the lookup: the row of the
\* message is written and the loop goes on.
C25_DialogsFetchedOnce ==
    /\ CountEv(log, "get_dialogs") <= 1
    /\ common_groups_cache.is_none <=> CountEv(log, "get_dialogs") = 0
    /\ Count(log, "Exception", "get_dialogs") = 1 =>
          /\ common_groups_cache = ListCache(<<>>)
          /\ pc \in {"writing", "done"}
          /\ Len(sink) = i + 1
    /\ (CountEv(log, "get_dialogs") = 1 /\ Count(log, "Exception", "get_dialogs") = 0) =>
          common_groups_cache \in
             {ListCache(Take(d.titles, max_cache_groups)) : d \in {o \in DialogOutcomes : o.ok}}

\* Two senders were looked up after the listing raised for the first.
C25_Witness ==
    /\ pc = "done"
    /\ Count(log, "resolve", "u1") = 1
    /\ Count(log, "resolve", "u2") = 1
    /\ Count(log, "Exception", "get_dialogs") = 1
    /\ CountEv(log, "get_dialogs") = 1
    /\ common_groups_cache = ListCache(<<>>)
    /\ Len(sink) = 3

\* ---------------------------------------------------------------- C26
\* C26: an entry of the per-run sender cache is never replaced, modified or
\* removed once it is there, and two rows of the output with the same
\* non-empty sender_id carry the same sender_bio and sender_common_groups.
C26_CacheEntriesImmutable ==
    /\ [][\A u \in DOMAIN users_cache :
             u \in DOMAIN users_cache' /\ users_cache'[u] = users_cache[u]]_vars
    /\ [](\A j, k \in 2..Len(sink) :
             (Col(sink[j], "sender_id") = Col(sink[k], "sender_id")
                /\ Col(sink[j], "sender_id") # "") =>
                  /\ Col(sink[j], "sender_bio") = Col(sink[k], "sender_bio")
                  /\ Col(sink[j], "sender_common_groups") = Col(sink[k], "sender_common_groups"))

\* Two rows of one sender, the second served from the cache.
C26_Witness ==
    /\ pc = "done"
    /\ ~fast_mode
    /\ Len(sink) = 3
    /\ Col(sink[2], "sender_id") = "u1"
    /\ Col(sink[3], "sender_id") = "u1"
    /\ Col(sink[3], "sender_bio") = "about"
    /\ Col(sink[3], "sender_common_groups") = <<1, 2, 3, 4, 5>>
    /\ Count(log, "resolve", "u1") = 1

\* ---------------------------------------------------------------- C27
\* C27: however the write session ends - after the last row, after an
\* exception raised in an iteration, or after an interruption by the user in
\* the middle of the loop - the output file is closed and holds the header
\* followed by the rows of a prefix of the collected messages, in their order;
\* during the session the file is open.
C27_FileClosedOnEveryExit ==
    /\ pc = "writing" => file = "open"
    /\ pc \in {"done", "aborted"} =>
          /\ file = "closed"
          /\ sink # <<>>
          /\ sink[1] = Header
          /\ Len(sink) - 1 <= Len(messages)
          /\ \A k \in 2..Len(sink) : Col(sink[k], "message_id") = messages[k - 1].id
          /\ pc = "done" => Len(sink) - 1 = Len(messages)

\* The user interrupted the loop after the first of two rows, while the
\* second sender had been looked up.
C27_Witness ==
    /\ pc = "aborted"
    /\ file = "closed"
    /\ Len(messages) = 2
    /\ Len(sink) = 2
    /\ log[Len(log)] = Ev("KeyboardInterrupt", "write_loop", 0)
    /\ Count(log, "resolve", messages[2].sender) = 1

\* ---------------------------------------------------------------- C28
\* C28: after a successful connection, for both entry points, the choices 1,
\* 2, 3 and 4 start the operation the menu announces for them, and any other
\* choice starts no operation and is answered by a message about the choice.
C28_MenuRunsAnnouncedOperation ==
    (run_pc = "returned" /\ \E k \in DOMAIN run_log : run_log[k] = Ev("input", "menu", 0)) =>
        IF menu_choice \in {"1", "2", "3", "4"}
        THEN /\ operation = Announced(menu_choice)
             /\ \E k \in DOMAIN run_log : run_log[k] = Ev("call", Announced(menu_choice), 0)
        ELSE /\ operation = "none"
             /\ \A k \in DOMAIN run_log : run_log[k].ev # "call"
             /\ \E k \in DOMAIN run_log :
                   /\ run_log[k].ev = "print"
                   /\ run_log[k].who \in {"invalid_choice", "numeric_value"}

\* ---------------------------------------------------------------- C29
\* C29: the bulk add always terminates, and for n users it makes at most n
\* invite attempts, at most one for each user, whatever errors occur.
C29_BulkAddTerminates ==
    /\ [](/\ n <= Len(users)
          /\ CountEv(add_log, "InviteToChannelRequest") <= Len(users)
          /\ CountEv(add_log, "get_input_entity") <= Len(users)
          /\ \A k \in DOMAIN users :
                /\ Count(add_log, "InviteToChannelRequest", users[k]) <= 1
                /\ Count(add_log, "get_input_entity", users[k]) <= 1)
    /\ <>(add_pc = "done")

\* Three users were attempted once each although the first met a flood wait
\* and the second a generic error.
C29_Witness ==
    /\ add_pc = "done"
    /\ Len(users) = 3
    /\ n = 3
    /\ Count(add_log, "FloodWaitError", "a") = 1
    /\ Count(add_log, "Exception", "b") = 1
    /\ Count(add_log, "InviteToChannelRequest", "a") = 1
    /\ CountEv(add_log, "InviteToChannelRequest") = 3

\* ---------------------------------------------------------------- C30
\* connect() has returned in this run
ClientConnected ==
    /\ CountEv(run_log, "connect") = 1
    /\ Count(run_log, "Exception", "connect") = 0

\* C30: once the client has connected, however run() ends - after the
\* operation, after an invalid choice, after an error or after an
\* interruption - the client was disconnected before run() returned and no
\* exception left run().
C30_DisconnectOnEveryExit ==
    (run_pc = "returned" /\ ClientConnected) =>
        /\ run_log[Len(run_log)] = Ev("disconnect", "client", 0)
        /\ CountEv(run_log, "disconnect") = 1
        /\ escaped = "none"

====
